---- MODULE Spec2Model ----
(***************************************************************************)
(* Model of the recommendation engine of xerox.yt-nt.v3beta:               *)
(*   src/unnamed/part_000        scoring ("strict-filter") pipeline        *)
(*   src/unnamed/part_001        XRAI dual-pool pipeline, mixFeeds, legacy *)
(*   src/utils/recommendation.ts hard-filter pipeline, preference store    *)
(*                                                                         *)
(* A JavaScript string is a sequence of characters; a character is a       *)
(* one-element TLA+ string for ASCII and "U<code point>" otherwise.        *)
(***************************************************************************)
EXTENDS Integers, Sequences, FiniteSets, TLC

VARIABLES
    pdInput,    \* parseDurationToSeconds: the argument isoDuration
    pdOut,      \* parseDurationToSeconds: the returned number (both variants)
    pdPc,       \* "call" before the call, "returned" after it
    scVideo,    \* calculateScore: the argument video
    scSource,   \* calculateScore: the argument source (preference snapshot)
    scOut,      \* calculateScore: the returned { score, reasons }
    scPc,       \* "call" before the call, "returned" after it
    entry,      \* the pipeline entry point invoked: "strict" (part_000
                \* getDeeplyAnalyzedRecommendations), "hard" (utils/recommendation.ts
                \* getDeeplyAnalyzedRecommendations), "xrai", "legacy"
    sources,    \* its argument sources
    pool,       \* the videos the remote collaborator can answer with
    pc,         \* "start", "fetching" (awaiting the join), "done"
    requests,   \* the issued requests, in issue order, each with its reply
    completed,  \* the positions of the settled requests, in the order in which
                \* they settled (observed for at most MaxObserved requests)
    rawCandidates,      \* per track, the flattened fetched lists
    uniqueCandidates,   \* per track, the deduplicated candidates
    result,     \* the returned list
    outcome,    \* "pending", "fulfilled" or "rejected": how the returned promise settled
    mxA,        \* mixFeeds: the argument discoveryList
    mxB,        \* mixFeeds: the argument comfortList
    mxRatio,    \* mixFeeds: the argument discoveryRatio, in percent
    mxOut,      \* mixFeeds: the returned list
    mxPc,       \* "call" before the call, "returned" after it
    hfCombined, \* hard-filter variant: combinedVideos after the join
    hfSource,   \* hard-filter variant: the argument sources
    hfFiltered, \* hard-filter variant: filteredVideos when it is shuffled
    hfPc,       \* "call" before the filters run, "returned" after them
    prefState,  \* PreferenceProvider: per state hook, the value of the last render
                \* (the value the handlers of that render close over)
    prefQueue   \* PreferenceProvider: per state hook, the updaters queued by
                \* setState calls since the last render

parseVars == <<pdInput, pdOut, pdPc>>
scoreVars == <<scVideo, scSource, scOut, scPc>>
pipeVars == <<entry, sources, pool, pc, requests, completed, rawCandidates, uniqueCandidates,
              result, outcome>>

mixVars == <<mxA, mxB, mxRatio, mxOut, mxPc>>

filterVars == <<hfCombined, hfSource, hfFiltered, hfPc>>

prefVars == <<prefState, prefQueue>>

vars == <<parseVars, scoreVars, pipeVars, mixVars, filterVars, prefVars>>

(***************************************************************************)
(* Strings                                                                 *)
(***************************************************************************)

\* The character sequence of an ASCII string literal.
S(str) == [i \in 1..Len(str) |-> SubSeq(str, i, i)]

UpperCase == S("ABCDEFGHIJKLMNOPQRSTUVWXYZ")
LowerCase == S("abcdefghijklmnopqrstuvwxyz")
Digits == S("0123456789")

IsDigit(c) == \E i \in 1..10 : Digits[i] = c

DigitValue(c) == (CHOOSE i \in 1..10 : Digits[i] = c) - 1

\* The lower-case letter of every ASCII upper-case letter.
LowerOf ==
    [c \in {UpperCase[i] : i \in 1..26} |->
        LowerCase[CHOOSE i \in 1..26 : UpperCase[i] = c]]

\* String.prototype.toLowerCase on one character.
LowerChar(c) == IF c \in DOMAIN LowerOf THEN LowerOf[c] ELSE c

\* String.prototype.toLowerCase
toLowerCase(s) == [i \in 1..Len(s) |-> LowerChar(s[i])]

\* String.prototype.includes
includes(text, pat) ==
    \E i \in 0..(Len(text) - Len(pat)) : \A k \in 1..Len(pat) : text[i + k] = pat[k]

\* parseInt(digits, 10) of a string of decimal digits.
RECURSIVE parseInt(_)
parseInt(ds) ==
    IF ds = <<>> THEN 0
    ELSE 10 * parseInt(SubSeq(ds, 1, Len(ds) - 1)) + DigitValue(ds[Len(ds)])

(***************************************************************************)
(* parseDurationToSeconds                                                  *)
(***************************************************************************)

\* Length of the longest run of digits of s that starts at position p.
RECURSIVE DigitRun(_, _)
DigitRun(s, p) ==
    IF p <= Len(s) /\ IsDigit(s[p]) THEN 1 + DigitRun(s, p + 1) ELSE 0

\* One optional group (?:(\d+)X)? of the regular expression, tried at position
\* p: the captured digits ("" when the group matches nothing) and the position
\* after the group.
OptionalGroup(s, p, unit) ==
    LET n == DigitRun(s, p)
    IN  IF n > 0 /\ p + n <= Len(s) /\ s[p + n] = unit
        THEN [digits |-> SubSeq(s, p, p + n - 1), next |-> p + n + 1]
        ELSE [digits |-> <<>>, next |-> p]

\* isoDuration.match(/PT(?:(\d+)H)?(?:(\d+)M)?(?:(\d+)S)?/): the regular
\* expression is not anchored, so the match starts at the leftmost "PT".
\* matched = FALSE stands for null.
DurationMatch(s) ==
    LET starts == {i \in 1..(Len(s) - 1) : s[i] = "P" /\ s[i + 1] = "T"}
    IN  IF starts = {} THEN [matched |-> FALSE]
        ELSE LET i == CHOOSE k \in starts : \A j \in starts : k <= j
                 gh == OptionalGroup(s, i + 2, "H")
                 gm == OptionalGroup(s, gh.next, "M")
                 gs == OptionalGroup(s, gm.next, "S")
             IN  [matched |-> TRUE, h |-> gh.digits, m |-> gm.digits, s |-> gs.digits]

\* matches[k] || '0'
OrZero(ds) == IF ds = <<>> THEN S("0") ELSE ds

SecondsOfMatch(mt) ==
    IF ~mt.matched THEN 0
    ELSE parseInt(OrZero(mt.h)) * 3600 + parseInt(OrZero(mt.m)) * 60
         + parseInt(OrZero(mt.s))

\* part_000: returns 0 for an empty string before matching.
parseDurationToSeconds(isoDuration) ==
    IF isoDuration = <<>> THEN 0 ELSE SecondsOfMatch(DurationMatch(isoDuration))

\* utils/recommendation.ts: no emptiness test.
parseDurationToSecondsHF(isoDuration) == SecondsOfMatch(DurationMatch(isoDuration))

(***************************************************************************)
(* calculateScore (part_000)                                               *)
(***************************************************************************)

tagKeywords ==
    [ casual |->
        <<  S("short"),
            S("funny"),
            S("meme"),
            <<"U5207", "U308A", "U629C", "U304D">>,
            <<"U307E", "U3068", "U3081">>,
            <<"U7206", "U7B11">> >>,
      deep |->
        <<  S("documentary"),
            S("history"),
            S("analysis"),
            <<"U89E3", "U8AAC">>,
            <<"U8003", "U5BDF">>,
            <<"U8B1B", "U5EA7">>,
            <<"U5FB9", "U5E95">>,
            <<"U5B8C", "U5168">> >>,
      instrumental |->
        <<  S("instrumental"),
            S("no talking"),
            S("off vocal"),
            S("bgm"),
            S("asmr"),
            <<"U4F5C", "U696D", "U7528">> >>,
      vocal |->
        <<  S("cover"),
            S("talk"),
            S("radio"),
            <<"U96D1", "U8AC7">>,
            <<"U6B4C", "U3063", "U3066", "U307F", "U305F">>,
            S("karaoke") >>,
      live |->
        <<  S("live"),
            S("stream"),
            S("archive"),
            <<"U914D", "U4FE1">>,
            <<"U751F", "U653E", "U9001">> >>,
      solo |->
        <<  S("solo"),
            S("playing"),
            S("play"),
            <<"U307C", "U3063", "U3061">>,
            <<"U4E00", "U4EBA">> >>,
      collab |->
        <<  S("collab"),
            S("with"),
            S("feat"),
            <<"U30B3", "U30E9", "U30DC">>,
            <<"U30B2", "U30B9", "U30C8">> >>,
      entertainment |->
        <<  S("fun"),
            S("variety"),
            <<"U30A8", "U30F3", "U30BF", "U30E1">>,
            <<"U30C9", "U30C3", "U30AD", "U30EA">>,
            <<"U4F01", "U753B">> >>,
      education |->
        <<  S("study"),
            S("learn"),
            S("lesson"),
            <<"U8B1B", "U5EA7">>,
            <<"U52C9", "U5F37">>,
            <<"U30CB", "U30E5", "U30FC", "U30B9">> >>,
      avatar |->
        <<  S("vtuber"),
            S("anime"),
            S("3d"),
            S("2d"),
            S("live2d") >>,
      real |->
        <<  S("vlog"),
            S("face"),
            S("real"),
            <<"U5B9F", "U5199">>,
            <<"U9854", "U51FA", "U3057">> >> ]

\* The markers of the freshness rule: fun-mae (minutes ago), jikan-mae (hours
\* ago), nichi-mae (days ago) and 'hours ago'.
FreshMarkers ==
    <<  <<"U5206", "U524D">>,
        <<"U6642", "U9593", "U524D">>,
        <<"U65E5", "U524D">>,
        S("hours ago") >>

\* Array.prototype.includes on an array of strings.
Has(arr, x) == \E i \in 1..Len(arr) : arr[i] = x

\* `${lowerTitle} ${lowerDesc} ${lowerChannel}`; an absent descriptionSnippet
\* is the empty string.
FullText(video) ==
    toLowerCase(video.title) \o S(" ") \o toLowerCase(video.descriptionSnippet)
        \o S(" ") \o toLowerCase(video.channelName)

\* Mutant: the keyword is not lower-cased before the search.
NgMatchesCaseSensitive(video, source) ==
    LET fullText == FullText(video)
    IN  {i \in 1..Len(source.ngKeywords) : includes(fullText, source.ngKeywords[i])}

\* 1. The positions of the NG keywords that occur in the text; an absent
\* ngKeywords is the empty list.
NgMatches(video, source) ==
    LET fullText == FullText(video)
    IN  {i \in 1..Len(source.ngKeywords) :
            includes(fullText, toLowerCase(source.ngKeywords[i]))}

\* The first matching keyword in list order: the loop returns at it.
FirstNgMatch(video, source) ==
    LET hits == NgMatches(video, source)
    IN  source.ngKeywords[CHOOSE i \in hits : \A j \in hits : i <= j]

\* Mutant: 'short' without the sec > 0 test.
DurationMatchesZeroShort(preferredDurations, sec) ==
    \/ Has(preferredDurations, "short") /\ sec < 240
    \/ Has(preferredDurations, "medium") /\ sec >= 240 /\ sec <= 1200
    \/ Has(preferredDurations, "long") /\ sec > 1200

\* Mutant: 240 seconds counted as short.
DurationMatchesInclusive(preferredDurations, sec) ==
    \/ Has(preferredDurations, "short") /\ sec > 0 /\ sec <= 240
    \/ Has(preferredDurations, "medium") /\ sec >= 240 /\ sec <= 1200
    \/ Has(preferredDurations, "long") /\ sec > 1200

\* 2. durationMatch of the duration rule.
DurationMatches(preferredDurations, sec) ==
    \/ Has(preferredDurations, "short") /\ sec > 0 /\ sec < 240
    \/ Has(preferredDurations, "medium") /\ sec >= 240 /\ sec <= 1200
    \/ Has(preferredDurations, "long") /\ sec > 1200

DurationRule(video, source) ==
    LET sec == parseDurationToSeconds(video.isoDuration)
    IN  IF Len(source.preferredDurations) = 0
        THEN [score |-> 0, reasons |-> <<>>]
        ELSE IF DurationMatches(source.preferredDurations, sec)
        THEN [score |-> 200, reasons |-> << <<"Duration Match (Priority)">> >>]
        ELSE IF sec > 0
        THEN [score |-> -500, reasons |-> << <<"Duration Mismatch (Penalty)">> >>]
        ELSE [score |-> 0, reasons |-> <<>>]

\* 3. Preferred channels.
PreferredChannelRule(video, source) ==
    IF LET lowerChannel == toLowerCase(video.channelName)
       IN  \E i \in 1..Len(source.preferredChannels) :
               includes(lowerChannel, toLowerCase(source.preferredChannels[i]))
    THEN [score |-> 50, reasons |-> << <<"Preferred Channel">> >>]
    ELSE [score |-> 0, reasons |-> <<>>]

\* 4. Subscribed channels.
SubscribedRule(video, source) ==
    IF LET lowerChannel == toLowerCase(video.channelName)
       IN  \E i \in 1..Len(source.subscribedChannels) :
               \/ source.subscribedChannels[i].id = video.channelId
               \/ toLowerCase(source.subscribedChannels[i].name) = lowerChannel
    THEN [score |-> 30, reasons |-> << <<"Subscribed Channel">> >>]
    ELSE [score |-> 0, reasons |-> <<>>]

\* 5. Genres: +40 for every entry of preferredGenres that occurs in the text.
RECURSIVE GenreRuleFrom(_, _, _)
GenreRuleFrom(fullText, preferredGenres, i) ==
    IF i > Len(preferredGenres) THEN [score |-> 0, reasons |-> <<>>]
    ELSE LET rest == GenreRuleFrom(fullText, preferredGenres, i + 1)
             genre == preferredGenres[i]
         IN  IF includes(fullText, toLowerCase(genre))
             THEN [score |-> 40 + rest.score,
                   reasons |-> << <<"Genre Match", genre>> >> \o rest.reasons]
             ELSE rest

GenreRule(video, source) == GenreRuleFrom(FullText(video), source.preferredGenres, 1)

\* 6. checkContext: prefVal is "" when the preference is not set.
checkContext(fullText, prefVal) ==
    IF /\ prefVal # ""
       /\ prefVal # "any"
       /\ prefVal \in DOMAIN tagKeywords
       /\ \E k \in 1..Len(tagKeywords[prefVal]) : includes(fullText, tagKeywords[prefVal][k])
    THEN [score |-> 30, reasons |-> << <<"Context", prefVal>> >>]
    ELSE [score |-> 0, reasons |-> <<>>]

\* The six preferences checkContext is called with, in call order.
ContextPrefs(source) ==
    <<source.prefDepth, source.prefVocal, source.prefLive, source.prefCommunity,
      source.prefInfoEnt, source.prefVisual>>

RECURSIVE ContextRuleFrom(_, _, _)
ContextRuleFrom(fullText, prefs, i) ==
    IF i > Len(prefs) THEN [score |-> 0, reasons |-> <<>>]
    ELSE LET one == checkContext(fullText, prefs[i])
             rest == ContextRuleFrom(fullText, prefs, i + 1)
         IN  [score |-> one.score + rest.score, reasons |-> one.reasons \o rest.reasons]

ContextRule(video, source) == ContextRuleFrom(FullText(video), ContextPrefs(source), 1)

\* 7. Freshness bonus.
FreshnessRule(video, source) ==
    IF /\ source.preferredFreshness = "new"
       /\ \E k \in 1..Len(FreshMarkers) : includes(video.uploadedAt, FreshMarkers[k])
    THEN [score |-> 20, reasons |-> << <<"Fresh">> >>]
    ELSE [score |-> 0, reasons |-> <<>>]

\* score += ..., reasons.push(...) of the rules applied, in their order.
RECURSIVE SumRules(_)
SumRules(rs) ==
    IF rs = <<>> THEN [score |-> 0, reasons |-> <<>>]
    ELSE [score |-> Head(rs).score + SumRules(Tail(rs)).score,
          reasons |-> Head(rs).reasons \o SumRules(Tail(rs)).reasons]

\* Rules 2 to 7, added up in their order.
AdditiveRules(video, source) ==
    SumRules(<<DurationRule(video, source), PreferredChannelRule(video, source),
               SubscribedRule(video, source), GenreRule(video, source),
               ContextRule(video, source), FreshnessRule(video, source)>>)

calculateScore(video, source) ==
    IF NgMatches(video, source) # {}
    THEN [score |-> -10000,
          reasons |-> << <<"NG Keyword", FirstNgMatch(video, source)>> >>]
    ELSE AdditiveRules(video, source)

(***************************************************************************)
(* extractKeywords (part_000 38-48, utils/recommendation.ts 6-26)           *)
(***************************************************************************)

\* \s; the texts of the model hold no other white space than the blank.
WhiteSpace == {" "}

\* [ and the full-width left bracket, ] and the full-width right bracket.
OpenBrackets == {"[", "U3010"}
CloseBrackets == {"]", "U3011"}

\* The character class [!-/:-@[- U+0060 {-~] (the grave accent cannot be written
\* in a string here and is "U0060").
PunctuationChars == S("!\"#$%&'()*+,-./:;<=>?@[\\]^_{|}~") \o <<"U0060">>
Punctuation == {PunctuationChars[i] : i \in 1..Len(PunctuationChars)}

\* Length of the longest run [^\s#]+ that starts at position p.
RECURSIVE TagRun(_, _)
TagRun(s, p) ==
    IF p <= Len(s) /\ s[p] \notin WhiteSpace /\ s[p] # "#"
    THEN 1 + TagRun(s, p + 1) ELSE 0

\* The matches <<from, to>> of /#[^\s#]+/g, searched from position p.
RECURSIVE HashtagSpans(_, _)
HashtagSpans(s, p) ==
    IF p > Len(s) THEN <<>>
    ELSE IF s[p] = "#" /\ TagRun(s, p + 1) > 0
    THEN << <<p, p + TagRun(s, p + 1)>> >> \o HashtagSpans(s, p + TagRun(s, p + 1) + 1)
    ELSE HashtagSpans(s, p + 1)

\* The matches of /[\[<fw-open>](.+?)[\]<fw-close>]/g, searched from position
\* p: an opening bracket, at least one character, lazily, and the first
\* closing bracket after it.
RECURSIVE BracketSpans(_, _)
BracketSpans(s, p) ==
    IF p > Len(s) THEN <<>>
    ELSE LET closes == {j \in (p + 2)..Len(s) : s[j] \in CloseBrackets}
         IN  IF s[p] \in OpenBrackets /\ closes # {}
             THEN LET j == CHOOSE k \in closes : \A l \in closes : k <= l
                  IN  << <<p, j>> >> \o BracketSpans(s, j + 1)
             ELSE BracketSpans(s, p + 1)

InSpan(spans, i) == \E k \in 1..Len(spans) : spans[k][1] <= i /\ i <= spans[k][2]

\* text.replace(regex, empty string): the text without the matches.
RECURSIVE WithoutSpans(_, _, _)
WithoutSpans(s, spans, i) ==
    IF i > Len(s) THEN <<>>
    ELSE (IF InSpan(spans, i) THEN <<>> ELSE <<s[i]>>) \o WithoutSpans(s, spans, i + 1)

SpanTexts(s, spans) == [k \in 1..Len(spans) |-> SubSeq(s, spans[k][1], spans[k][2])]

\* String.prototype.trim
RECURSIVE trim(_)
trim(s) ==
    IF s = <<>> THEN s
    ELSE IF Head(s) \in WhiteSpace THEN trim(Tail(s))
    ELSE IF s[Len(s)] \in WhiteSpace THEN trim(SubSeq(s, 1, Len(s) - 1))
    ELSE s

RECURSIVE WordRun(_, _)
WordRun(s, p) ==
    IF p <= Len(s) /\ s[p] \notin WhiteSpace THEN 1 + WordRun(s, p + 1) ELSE 0

\* split(/\s+/) without the empty strings it gives at the ends of the text,
\* which the length filter drops.
RECURSIVE SplitWords(_, _)
SplitWords(s, p) ==
    IF p > Len(s) THEN <<>>
    ELSE IF s[p] \in WhiteSpace THEN SplitWords(s, p + 1)
    ELSE <<SubSeq(s, p, p + WordRun(s, p) - 1)>> \o SplitWords(s, p + WordRun(s, p))

StartsWith(w, prefix) == Len(w) >= Len(prefix) /\ SubSeq(w, 1, Len(prefix)) = prefix

\* w.length > 1 && !/^(http|www|com|jp)/.test(w)
IsCleanWord(w) ==
    /\ Len(w) > 1
    /\ ~\E pre \in {S("http"), S("www"), S("com"), S("jp")} : StartsWith(w, pre)

extractKeywords(text) ==
    IF text = <<>> THEN <<>>
    ELSE LET hashtags == SpanTexts(text, HashtagSpans(text, 1))
             brackets == SpanTexts(text, BracketSpans(text, 1))
             noBrackets == WithoutSpans(text, BracketSpans(text, 1), 1)
             rawText == WithoutSpans(noBrackets, HashtagSpans(noBrackets, 1), 1)
             spaced == [i \in 1..Len(rawText) |->
                           IF rawText[i] \in Punctuation THEN " " ELSE rawText[i]]
             words == SplitWords(spaced, 1)
             cleanHashtags == [k \in 1..Len(hashtags) |-> trim(hashtags[k])]
             cleanBrackets ==
                 [k \in 1..Len(brackets) |->
                     trim(SelectSeq(brackets[k],
                                    LAMBDA c : c \notin OpenBrackets \cup CloseBrackets))]
             cleanWords == SelectSeq(words, IsCleanWord)
         IN  cleanHashtags \o cleanBrackets \o cleanWords

(***************************************************************************)
(* Requests and replies                                                    *)
(***************************************************************************)

Min(a, b) == IF a <= b THEN a ELSE b

\* array.slice(0, n)
Slice(arr, n) == SubSeq(arr, 1, Min(n, Len(arr)))

\* Set.prototype.add on a set kept in insertion order.
AddQuery(queries, q) == IF Has(queries, q) THEN queries ELSE Append(queries, q)

RECURSIVE AddQueries(_, _)
AddQueries(queries, qs) ==
    IF qs = <<>> THEN queries ELSE AddQueries(AddQuery(queries, Head(qs)), Tail(qs))

NoSub == [id |-> "", name |-> <<>>, avatarUrl |-> ""]
NoReply == [t |-> "none", videos |-> <<>>]

\* A request as issued. api: "search", "channel", "details" or "feed"; caught:
\* whether a .catch(() => []) (or a try/catch) handles its failure.
Request(api, arg, sub, track, caught) ==
    [api |-> api, arg |-> arg, sub |-> sub, track |-> track, caught |-> caught,
     status |-> "pending", reply |-> NoReply]

SearchRequest(q, track) == Request("search", q, NoSub, track, TRUE)
ChannelRequest(sub, track) == Request("channel", <<>>, sub, track, TRUE)

\* The sequences of at most n distinct positions of arr: what
\* shuffleArray(arr).slice(0, n) can select, as positions.
Picks(arr, n) ==
    {p \in [1..Min(n, Len(arr)) -> 1..Len(arr)] :
        \A i, j \in DOMAIN p : i # j => p[i] # p[j]}

\* A settled promise: fulfilled with an array, fulfilled with undefined, or
\* rejected.
Fulfilled(items) == [state |-> "fulfilled", isArray |-> TRUE, items |-> items]
FulfilledUndefined == [state |-> "fulfilled", isArray |-> FALSE, items |-> <<>>]
Rejected == [state |-> "rejected", isArray |-> FALSE, items |-> <<>>]

\* v => ({...v, channelName: sub.name, channelAvatarUrl: sub.avatarUrl, channelId: sub.id})
WithChannel(v, sub) ==
    [v EXCEPT !.channelName = sub.name, !.channelAvatarUrl = sub.avatarUrl,
              !.channelId = sub.id]

(***************************************************************************)
(* getDeeplyAnalyzedRecommendations, scoring variant (part_000 204-327)     *)
(***************************************************************************)

QueryCap == 6
FeedCap == 2
historyLookback == 15
ScoreThreshold == -100
TopResults == 50

getContextKeywords(src) ==
    (IF src.prefDepth = "deep"
     THEN << <<"U89E3", "U8AAC">>, <<"U8003", "U5BDF">> >> ELSE <<>>)
    \o (IF src.prefVisual = "avatar" THEN <<S("Vtuber")>> ELSE <<>>)
    \o (IF src.prefVisual = "real" THEN <<S("vlog")>> ELSE <<>>)

\* The outcomes of Math.random of one invocation: ctx, the context keyword the
\* shuffle puts first (0: there is none); second, the positions of the recent
\* history where Math.random() > 0.5; sub, the position of randomSub (0: no
\* subscription); feed, the subscriptions shuffleArray puts first.
StrictRandoms(src) ==
    [ctx : IF getContextKeywords(src) = <<>> THEN {0}
           ELSE 1..Len(getContextKeywords(src)),
     second : SUBSET {i \in 1..Min(historyLookback, Len(src.watchHistory)) :
                        Len(extractKeywords(src.watchHistory[i].title)) > 1},
     sub : IF src.subscribedChannels = <<>> THEN {0} ELSE 1..Len(src.subscribedChannels),
     feed : Picks(src.subscribedChannels, FeedCap)]

\* ' ' + shuffleArray(getContextKeywords()).slice(0, 1).join(' ')
StrictContextSuffix(src, rnd) ==
    S(" ") \o (IF rnd.ctx = 0 THEN <<>> ELSE getContextKeywords(src)[rnd.ctx])

StrictFreshnessSuffix(src) == IF src.preferredFreshness = "new" THEN S(" new") ELSE <<>>

\* queries.add(q) under a condition.
AddQueryIf(queries, cond, q) == IF cond THEN AddQuery(queries, q) ELSE queries

\* The body of recentHistory.forEach for one video: its first keyword, and
\* the second if there is one and Math.random() > 0.5 (second).
StrictVideoQueries(queries, keywords, ctx, second) ==
    AddQueryIf(AddQueryIf(queries, Len(keywords) > 0, keywords[1] \o ctx),
               Len(keywords) > 1 /\ second, keywords[2] \o ctx)

\* The fallback taken only when no query was generated.
StrictFallbackOnlyEmpty(queries, src, ctx) ==
    IF Len(queries) = 0
    THEN AddQueries(queries, <<S("Japan trending") \o ctx, S("Gaming") \o ctx,
                               S("Music") \o ctx>>)
    ELSE queries

\* E. Fallback / Discovery
StrictFallback(queries, src, ctx) ==
    IF Len(queries) = 0 \/ src.discoveryMode = "discovery"
    THEN AddQueries(queries, <<S("Japan trending") \o ctx, S("Gaming") \o ctx,
                               S("Music") \o ctx>>)
    ELSE queries

\* C. the queries of the recent watch history, from entry i on.
RECURSIVE StrictHistoryQueries(_, _, _, _)
StrictHistoryQueries(queries, src, rnd, i) ==
    IF i > Min(historyLookback, Len(src.watchHistory)) THEN queries
    ELSE StrictHistoryQueries(
             StrictVideoQueries(queries, extractKeywords(src.watchHistory[i].title),
                                StrictContextSuffix(src, rnd), i \in rnd.second),
             src, rnd, i + 1)

\* The set queries after steps A to E, in insertion order.
StrictQueriesWith(src, rnd, ctx) ==
    StrictFallback(
        AddQueryIf(
            StrictHistoryQueries(
                AddQueries(
                    AddQueries(<<>>, [i \in 1..Len(src.preferredGenres) |->
                                        src.preferredGenres[i] \o ctx
                                            \o StrictFreshnessSuffix(src)]),
                    [i \in 1..Len(src.preferredChannels) |-> src.preferredChannels[i] \o ctx]),
                src, rnd, 1),
            src.discoveryMode # "discovery" /\ rnd.sub # 0,
            src.subscribedChannels[rnd.sub].name \o ctx),
        src, ctx)

StrictQueries(src, rnd) == StrictQueriesWith(src, rnd, StrictContextSuffix(src, rnd))

\* Array.from(queries) without the slice.
StrictUniqueQueriesUncapped(src, rnd) == StrictQueries(src, rnd)

\* uniqueQueries
StrictUniqueQueries(src, rnd) == Slice(StrictQueries(src, rnd), QueryCap)

\* fetchPromises, in push order: the searches, then the channel feeds.
StrictFetches(uniqueQueries, src, rnd) ==
    [i \in 1..Len(uniqueQueries) |-> SearchRequest(uniqueQueries[i], "all")]
    \o (IF src.discoveryMode # "discovery" /\ Len(src.subscribedChannels) > 0
        THEN [i \in 1..Len(rnd.feed) |->
                 ChannelRequest(src.subscribedChannels[rnd.feed[i]], "all")]
        ELSE <<>>)

StrictRequests(src, rnd) == StrictFetches(StrictUniqueQueries(src, rnd), src, rnd)

\* What the promise pushed for a request settles to.
\* search:  searchVideos(q).then(res => res.videos).catch(() => [])
\* channel: getChannelVideos(id).then(res => res.videos.map(...)).catch(() => [])
\*          where res.videos.map throws on a reply without videos.
StrictPromise(req) ==
    IF req.reply.t = "fail" THEN Fulfilled(<<>>)
    ELSE IF req.api = "search"
    THEN IF req.reply.t = "ok" THEN Fulfilled(req.reply.videos) ELSE FulfilledUndefined
    ELSE IF req.reply.t = "ok"
    THEN Fulfilled([i \in 1..Len(req.reply.videos) |->
                       WithChannel(req.reply.videos[i], req.sub)])
    ELSE Fulfilled(<<>>)

\* results.forEach: the values that are fulfilled arrays, concatenated in the
\* order of the promises.
RECURSIVE CollectArrays(_)
CollectArrays(promises) ==
    IF promises = <<>> THEN <<>>
    ELSE (IF Head(promises).state = "fulfilled" /\ Head(promises).isArray
          THEN Head(promises).items ELSE <<>>) \o CollectArrays(Tail(promises))

\* Mutant: the last entry of every id is kept instead of the first.
RECURSIVE DeduplicateLast(_, _)
DeduplicateLast(candidates, seenIds) ==
    IF candidates = <<>> THEN <<>>
    ELSE IF \E i \in 2..Len(candidates) : candidates[i].id = Head(candidates).id
    THEN DeduplicateLast(Tail(candidates), seenIds)
    ELSE <<Head(candidates)>> \o DeduplicateLast(Tail(candidates), seenIds)

\* The entries of arr at the positions kept, in the order of arr.
AtPositions(arr, kept) ==
    [k \in 1..Cardinality(kept) |->
        arr[CHOOSE i \in kept : Cardinality({h \in kept : h < i}) = k - 1]]

\* The seenIds loop: the first entry of every id that is not in seenIds
\* already, in order.
Deduplicate(candidates, seenIds) ==
    AtPositions(candidates,
                {i \in 1..Len(candidates) :
                    /\ candidates[i].id \notin seenIds
                    /\ \A h \in 1..(i - 1) : candidates[h].id # candidates[i].id})

\* { ...video, score, debugReason: reasons }
Annotated(video, scored) ==
    [f \in DOMAIN video \cup {"score", "debugReason"} |->
        IF f = "score" THEN scored.score
        ELSE IF f = "debugReason" THEN scored.reasons
        ELSE video[f]]

ScoredVideo(video, src) == Annotated(video, calculateScore(video, src))

\* The list left in the order of the candidates.
Unsorted(videos) == videos

\* The position Array.prototype.sort with (a, b) => b.score - a.score gives
\* the entry i: after the entries of a higher score and the earlier entries of
\* the same score (the sort is stable).
RankByScore(videos, i) ==
    1 + Cardinality({h \in 1..Len(videos) :
                        \/ videos[h].score > videos[i].score
                        \/ videos[h].score = videos[i].score /\ h < i})

SortByScore(videos) ==
    [p \in 1..Len(videos) |->
        videos[CHOOSE i \in 1..Len(videos) : RankByScore(videos, i) = p]]

PassesThreshold(v) == v.score > ScoreThreshold

\* 3. Scoring and ranking of the deduplicated candidates.
StrictRanking(unique, src) ==
    LET scoredVideos == [i \in 1..Len(unique) |-> ScoredVideo(unique[i], src)]
        validVideos == SelectSeq(scoredVideos, PassesThreshold)
    IN  Slice(SortByScore(validVideos), TopResults)

(***************************************************************************)
(* getDeeplyAnalyzedRecommendations, hard-filter variant                   *)
(* (utils/recommendation.ts 64-230)                                        *)
(***************************************************************************)

TARGET_COUNT == 100
ShortFilterFloor == 20
ShortSeconds == 60
SubFeedSlice == 10

\* What shuffleArray(arr) can return.
Shuffles(arr) == {[i \in 1..Len(arr) |-> arr[p[i]]] : p \in Picks(arr, Len(arr))}

HardFreshnessSuffix(src) ==
    IF src.preferredFreshness = "new" THEN S(" new")
    ELSE IF src.preferredFreshness = "popular" THEN S(" best")
    ELSE <<>>

\* targetSubCount without the branch of the discovery mode.
HardTargetSubCountNoDiscovery(src) ==
    IF src.discoveryMode = "subscribed" THEN Min(Len(src.subscribedChannels), 10)
    ELSE Min(Len(src.subscribedChannels), 5)

HardTargetSubCount(src) ==
    IF src.discoveryMode = "subscribed" THEN Min(Len(src.subscribedChannels), 10)
    ELSE IF src.discoveryMode = "discovery" THEN 1
    ELSE Min(Len(src.subscribedChannels), 5)

\* extractKeywords(video.title + ' ' + (video.descriptionSnippet || ''))
HardKeywords(video) == extractKeywords(video.title \o S(" ") \o video.descriptionSnippet)

\* historySamples for the draws h2 and h3, as positions of watchHistory.
HardSamples(h2, h3) == <<1, h2, h3>>

\* The keywords Math.floor(Math.random() * keywords.length) chooses from, when
\* it is drawn (keywords.length > 2).
HardKeywordDraws(keywords) == IF Len(keywords) > 2 THEN Len(keywords) ELSE 1

\* The outcomes of Math.random of one invocation before the await: g, the two
\* random genres; h2 and h3, the second and third history sample; kw, the
\* keyword drawn for each sample; s, the random search term; subs, the
\* channels shuffleArray puts first.
HardRandoms(src) ==
    LET wh == src.watchHistory
        draws ==
          [g : IF src.preferredGenres = <<>> THEN {<<>>}
               ELSE [1..2 -> 1..Len(src.preferredGenres)],
           h2 : IF wh = <<>> THEN {0} ELSE 1..Min(Len(wh), 5),
           h3 : IF wh = <<>> THEN {0} ELSE {Min(Len(wh), 11 + j) : j \in 0..9},
           kw : IF wh = <<>> THEN {<<>>}
                ELSE [1..3 -> 1..(1 + Len(wh[1].title) + Len(wh[1].descriptionSnippet))],
           s : IF Len(src.searchHistory) > 1 THEN 1..Min(Len(src.searchHistory), 10)
               ELSE {0},
           subs : Picks(src.subscribedChannels, HardTargetSubCount(src))]
    IN  {r \in draws :
            \A i \in DOMAIN r.kw :
               r.kw[i] <= HardKeywordDraws(HardKeywords(wh[HardSamples(r.h2, r.h3)[i]]))}

\* keywords.slice(0, 2).join(' ')
FirstTwo(keywords) ==
    IF Len(keywords) > 1 THEN keywords[1] \o S(" ") \o keywords[2] ELSE keywords[1]

\* The body of historySamples.forEach for one video; kw is the position of
\* the keyword drawn.
HardVideoQueries(queries, video, keywords, fresh, kw) ==
    IF Len(keywords) > 0
    THEN AddQueryIf(AddQuery(queries, FirstTwo(keywords) \o fresh),
                    Len(keywords) > 2, keywords[kw] \o fresh)
    ELSE AddQuery(queries, Slice(video.title, 20))

\* 2. the queries of the history samples, from sample i on.
RECURSIVE HardHistoryQueries(_, _, _, _)
HardHistoryQueries(queries, src, rnd, i) ==
    IF i > 3 \/ Len(src.watchHistory) = 0 \/ src.discoveryMode = "discovery" THEN queries
    ELSE HardHistoryQueries(
             HardVideoQueries(queries, src.watchHistory[HardSamples(rnd.h2, rnd.h3)[i]],
                              HardKeywords(src.watchHistory[HardSamples(rnd.h2, rnd.h3)[i]]),
                              HardFreshnessSuffix(src), rnd.kw[i]),
             src, rnd, i + 1)

\* arr[(page - 1) % arr.length]
OfPage(arr, page) == arr[((page - 1) % Len(arr)) + 1]

\* 1. the queries of the preferred genres: the genre of the page and two
\* random ones.
HardGenreQueries(genres, page, g, fresh) ==
    IF Len(genres) > 0
    THEN AddQueries(<<>>, <<OfPage(genres, page) \o fresh, genres[g[1]] \o fresh,
                            genres[g[2]] \o fresh>>)
    ELSE <<>>

\* 1. the queries of the preferred channel of the page.
HardChannelQueries(queries, channels, page, freshness) ==
    IF Len(channels) > 0
    THEN AddQueryIf(AddQuery(queries, OfPage(channels, page) \o S(" ")),
                    freshness = "new", OfPage(channels, page) \o S(" new"))
    ELSE queries

\* 3. the queries of the search history: the latest term and a random one.
HardSearchQueries(queries, searchHistory, s, fresh) ==
    IF Len(searchHistory) > 0
    THEN AddQueryIf(AddQuery(queries, searchHistory[1] \o fresh),
                    Len(searchHistory) > 1, searchHistory[s] \o fresh)
    ELSE queries

\* The set queries after steps 1 to 3, in insertion order.
HardQueries(src, rnd) ==
    HardSearchQueries(
        HardHistoryQueries(
            HardChannelQueries(
                HardGenreQueries(src.preferredGenres, src.page, rnd.g,
                                 HardFreshnessSuffix(src)),
                src.preferredChannels, src.page, src.preferredFreshness),
            src, rnd, 1),
        src.searchHistory, rnd.s, HardFreshnessSuffix(src))

NonEmpty(q) == q # <<>>

\* Array.from(queries).filter(Boolean)
HardUniqueQueries(src, rnd) == SelectSeq(HardQueries(src, rnd), NonEmpty)

\* The requests in the order they are issued: getChannelVideos is called in
\* the loop of step 4, searchVideos afterwards in uniqueQueries.map.
HardFetches(uniqueQueries, src, rnd) ==
    [i \in 1..Len(rnd.subs) |-> ChannelRequest(src.subscribedChannels[rnd.subs[i]], "all")]
    \o [i \in 1..Len(uniqueQueries) |-> SearchRequest(uniqueQueries[i], "all")]

HardRequests(src, rnd) == HardFetches(HardUniqueQueries(src, rnd), src, rnd)

HardVideosPerQuery(src) == IF src.discoveryMode = "discovery" THEN 30 ELSE 20

\* What the promise of a request settles to; res.videos.slice throws on a
\* reply without videos, and the catch turns every failure into [].
HardPromise(req, src) ==
    IF req.reply.t # "ok" THEN Fulfilled(<<>>)
    ELSE IF req.api = "search"
    THEN Fulfilled(Slice(req.reply.videos, HardVideosPerQuery(src)))
    ELSE Fulfilled([i \in 1..Min(SubFeedSlice, Len(req.reply.videos)) |->
                       WithChannel(req.reply.videos[i], req.sub)])

IsSearch(req) == req.api = "search"
IsChannel(req) == req.api = "channel"

\* combinedVideos: Promise.allSettled([...searchPromises, ...subPromises]).
HardRaw(reqs, src) ==
    LET ordered == SelectSeq(reqs, IsSearch) \o SelectSeq(reqs, IsChannel)
    IN  CollectArrays([i \in 1..Len(ordered) |-> HardPromise(ordered[i], src)])

\* Mutant: the NG word filter of the hard-filter variant reads the title only.
HardIsNgTitleOnly(video, src) ==
    /\ Len(src.ngKeywords) > 0
    /\ \E i \in 1..Len(src.ngKeywords) :
          includes(toLowerCase(video.title), toLowerCase(src.ngKeywords[i]))

\* The NG word filter of the loop.
HardIsNg(video, src) ==
    /\ Len(src.ngKeywords) > 0
    /\ LET targetText == toLowerCase(video.title \o S(" ") \o video.channelName \o S(" ")
                                       \o video.descriptionSnippet)
       IN  \E i \in 1..Len(src.ngKeywords) :
              includes(targetText, toLowerCase(src.ngKeywords[i]))

\* The duration filter of the loop.
HardDurationPasses(video, src) ==
    \/ Len(src.preferredDurations) = 0
    \/ LET durationSec == parseDurationToSecondsHF(video.isoDuration)
       IN  \/ Has(src.preferredDurations, "short") /\ durationSec < 240
           \/ Has(src.preferredDurations, "medium") /\ durationSec >= 240
                                                    /\ durationSec <= 1200
           \/ Has(src.preferredDurations, "long") /\ durationSec > 1200
           \/ durationSec = 0

\* The loop over combinedVideos: seen, the videos that pass the seenIds test;
\* kept, filteredVideos.
HardLoop(combined, seenIds, src) ==
    LET seen == Deduplicate(combined, seenIds)
        passes(video) == ~HardIsNg(video, src) /\ HardDurationPasses(video, src)
    IN  [seen |-> seen, kept |-> SelectSeq(seen, passes)]

\* The positions of filteredVideos whose survival Math.random() > 0.7 decides.
HardDroppable(filtered, src) ==
    IF Len(filtered) > ShortFilterFloor /\ ~Has(src.preferredDurations, "short")
    THEN {i \in 1..Len(filtered) :
             parseDurationToSecondsHF(filtered[i].isoDuration) <= ShortSeconds}
    ELSE {}

Without(arr, dropped) ==
    LET keep(i) == Cardinality({j \in 1..i : j \notin dropped})
        n == keep(Len(arr))
    IN  [k \in 1..n |-> arr[CHOOSE i \in 1..Len(arr) : i \notin dropped /\ keep(i) = k]]

\* filteredVideos after the exclusion of short videos, for every outcome of
\* Math.random().
HardShortFilter(filtered, src) ==
    {Without(filtered, dropped) : dropped \in SUBSET HardDroppable(filtered, src)}

\* The lists the variant can return for filteredVideos.
HardResults(filtered, src) ==
    UNION {{Slice(sh, TARGET_COUNT) : sh \in Shuffles(short)} :
              short \in HardShortFilter(filtered, src)}

(***************************************************************************)
(* getXraiRecommendations and getLegacyRecommendations (part_001)          *)
(***************************************************************************)

TopKeywords == 12
ChunkSize == 3
RecentWindow == 5
XraiFeedCap == 2
XraiFeedSlice == 8
DiscoveryRatioPercent == 65
XraiCap == 150

\* The first occurrence of every element of arr, in order.
RECURSIVE Distinct(_)
Distinct(arr) ==
    IF arr = <<>> THEN <<>>
    ELSE LET init == Distinct(SubSeq(arr, 1, Len(arr) - 1))
         IN  IF Has(init, arr[Len(arr)]) THEN init ELSE Append(init, arr[Len(arr)])

RECURSIVE Flatten(_)
Flatten(lists) == IF lists = <<>> THEN <<>> ELSE Head(lists) \o Flatten(Tail(lists))

\* buildUserProfile: the keywords of the watched titles and of the search
\* terms, each weighted by the number of its mentions.
ProfileMentions(src) ==
    Flatten([i \in 1..Len(src.watchHistory) |-> extractKeywords(src.watchHistory[i].title)])
    \o Flatten([i \in 1..Len(src.searchHistory) |-> extractKeywords(src.searchHistory[i])])

ProfileWeight(mentions, kw) == Cardinality({i \in 1..Len(mentions) : mentions[i] = kw})

\* [...userProfile.keywords.entries()].sort((a, b) => b[1] - a[1]).map(e => e[0])
RECURSIVE InsertByWeight(_, _, _)
InsertByWeight(sorted, kw, mentions) ==
    IF sorted = <<>> THEN <<kw>>
    ELSE IF ProfileWeight(mentions, Head(sorted)) >= ProfileWeight(mentions, kw)
    THEN <<Head(sorted)>> \o InsertByWeight(Tail(sorted), kw, mentions)
    ELSE <<kw>> \o sorted

RECURSIVE SortByWeight(_, _)
SortByWeight(kws, mentions) ==
    IF kws = <<>> THEN <<>>
    ELSE InsertByWeight(SortByWeight(SubSeq(kws, 1, Len(kws) - 1), mentions),
                        kws[Len(kws)], mentions)

SortedKeywords(mentions) == SortByWeight(Distinct(mentions), mentions)

weightedKeywords(src) == SortedKeywords(ProfileMentions(src))

\* Array.from(new Set([...preferredGenres, ...weightedKeywords])).slice(0, 12)
topKeywords(src) == Slice(Distinct(src.preferredGenres \o weightedKeywords(src)), TopKeywords)

RECURSIVE chunkArray(_, _)
chunkArray(array, size) ==
    IF array = <<>> THEN <<>>
    ELSE <<Slice(array, size)>>
         \o chunkArray(SubSeq(array, Min(size, Len(array)) + 1, Len(array)), size)

\* chunk.join(' OR ')
RECURSIVE JoinOr(_)
JoinOr(chunk) ==
    IF Len(chunk) = 1 THEN chunk[1]
    ELSE chunk[1] \o S(" OR ") \o JoinOr(Tail(chunk))

\* The outcomes of Math.random before the await: recent, the position of
\* recentVideo (0: no history); feed, the subscriptions shuffleArray puts first.
XraiRandoms(src) ==
    [recent : IF src.watchHistory = <<>> THEN {0}
              ELSE 1..Min(Len(src.watchHistory), RecentWindow),
     feed : Picks(src.subscribedChannels, XraiFeedCap)]

\* A-1. one search for every chunk of keywords.
ChunkRequests(keywordChunks) ==
    [i \in 1..Len(keywordChunks) |-> SearchRequest(JoinOr(keywordChunks[i]), "discovery")]

\* discoveryPromises before the fallback: the keyword searches, or the trending
\* search.
XraiDiscoveryRequests(top, page) ==
    ChunkRequests(chunkArray(top, ChunkSize))
    \o (IF Len(top) = 0 /\ page = 1
        THEN <<SearchRequest(S("trending Japan"), "discovery")>> ELSE <<>>)

XraiComfortRequests(src, rnd) ==
    (IF Len(src.watchHistory) > 0
     THEN <<Request("details", src.watchHistory[rnd.recent].id, NoSub, "comfort", TRUE)>>
     ELSE <<>>)
    \o (IF Len(src.subscribedChannels) > 0
        THEN [i \in 1..Len(rnd.feed) |->
                 ChannelRequest(src.subscribedChannels[rnd.feed[i]], "comfort")]
        ELSE <<>>)

\* getRecommendedVideos().then(res => res.videos): no catch.
FeedRequest(caught) == Request("feed", <<>>, NoSub, "discovery", caught)

\* The fallback for new users, pushed to discoveryPromises.
XraiFallback(discovery, src, top) ==
    IF /\ Len(src.watchHistory) = 0
       /\ Len(src.subscribedChannels) = 0
       /\ Len(top) = 0
       /\ Len(discovery) = 0
    THEN <<FeedRequest(FALSE)>> ELSE <<>>

\* The requests in issue order.
XraiFetches(discovery, src, rnd, top) ==
    discovery \o XraiComfortRequests(src, rnd) \o XraiFallback(discovery, src, top)

XraiPlan(src, rnd, top) == XraiFetches(XraiDiscoveryRequests(top, src.page), src, rnd, top)

XraiRequests(src, rnd) == XraiPlan(src, rnd, topKeywords(src))

\* What the promise of a request settles to.
\* search:  .then(res => res.videos).catch(() => [])
\* details: .then(details => (details.relatedVideos || [])).catch(() => [])
\* channel: .then(res => res.videos.slice(0, 8)).catch(() => [])
\* feed:    .then(res => res.videos)
XraiPromise(req) ==
    IF req.api = "search"
    THEN IF req.reply.t = "fail" THEN Fulfilled(<<>>)
         ELSE IF req.reply.t = "ok" THEN Fulfilled(req.reply.videos)
         ELSE FulfilledUndefined
    ELSE IF req.api = "details"
    THEN IF req.reply.t = "ok" THEN Fulfilled(req.reply.videos) ELSE Fulfilled(<<>>)
    ELSE IF req.api = "channel"
    THEN IF req.reply.t = "ok" THEN Fulfilled(Slice(req.reply.videos, XraiFeedSlice))
         ELSE Fulfilled(<<>>)
    ELSE IF req.reply.t = "fail" THEN Rejected
         ELSE IF req.reply.t = "ok" THEN Fulfilled(req.reply.videos)
         ELSE FulfilledUndefined

\* Promise.all rejects as soon as one of its promises is rejected.
XraiRejected(reqs) ==
    \E i \in 1..Len(reqs) : reqs[i].status = "settled" /\ XraiPromise(reqs[i]).state = "rejected"

\* nested.flat() holds undefined where a promise was fulfilled with undefined,
\* and v.id throws on it.
XraiTypeError(reqs) ==
    \E i \in 1..Len(reqs) : reqs[i].status = "settled" /\ ~XraiPromise(reqs[i]).isArray

\* nested.flat() of one track.
XraiRaw(reqs, track) ==
    LET onTrack(req) == req.track = track
        mine == SelectSeq(reqs, onTrack)
    IN  Flatten([i \in 1..Len(mine) |-> XraiPromise(mine[i]).items])

\* Array.from(new Map(raw.map(v => [v.id, v])).values()): a key keeps the
\* position of its first entry and the value of its last.
MapDedup(raw) ==
    LET ids == Distinct([i \in 1..Len(raw) |-> raw[i].id])
    IN  [k \in 1..Len(ids) |->
            raw[CHOOSE i \in 1..Len(raw) :
                   /\ raw[i].id = ids[k]
                   /\ \A j \in 1..Len(raw) : raw[j].id = ids[k] => j <= i]]

\* uniqueComfort.filter(v => !discoveryIds.has(v.id))
FilterComfort(uniqueComfort, uniqueDiscovery) ==
    LET discoveryIds == {uniqueDiscovery[i].id : i \in 1..Len(uniqueDiscovery)}
        fresh(v) == v.id \notin discoveryIds
    IN  SelectSeq(uniqueComfort, fresh)

\* rankVideos: the videos without an NG keyword and of no NG channel, in the
\* order of their ranking, which is any order here.
RankNg(video, src) ==
    \/ NgMatches(video, src) # {}
    \/ \E i \in 1..Len(src.ngChannels) : src.ngChannels[i] = video.channelId

rankVideos(videos, src) ==
    LET allowed(v) == ~RankNg(v, src)
    IN  Shuffles(SelectSeq(videos, allowed))

\* The iteration without the seenIds test.
MixStepNoSeen(discoveryList, comfortList, st, pickFromA) ==
    IF pickFromA /\ st.idxA < Len(discoveryList)
    THEN [idxA |-> st.idxA + 1, idxB |-> st.idxB,
          mixed |-> Append(st.mixed, discoveryList[st.idxA + 1])]
    ELSE IF st.idxB < Len(comfortList)
    THEN [idxA |-> st.idxA, idxB |-> st.idxB + 1,
          mixed |-> Append(st.mixed, comfortList[st.idxB + 1])]
    ELSE st

\* One iteration of the loop of mixFeeds, for the state st of idxA, idxB and
\* result (mixed) and the decision pickFromA.
MixStep(discoveryList, comfortList, st, pickFromA) ==
    IF pickFromA /\ st.idxA < Len(discoveryList)
    THEN [idxA |-> st.idxA + 1, idxB |-> st.idxB,
          mixed |-> IF \E k \in 1..Len(st.mixed) :
                          st.mixed[k].id = discoveryList[st.idxA + 1].id
                    THEN st.mixed ELSE Append(st.mixed, discoveryList[st.idxA + 1])]
    ELSE IF st.idxB < Len(comfortList)
    THEN [idxA |-> st.idxA, idxB |-> st.idxB + 1,
          mixed |-> IF \E k \in 1..Len(st.mixed) :
                          st.mixed[k].id = comfortList[st.idxB + 1].id
                    THEN st.mixed ELSE Append(st.mixed, comfortList[st.idxB + 1])]
    ELSE st

\* The loop with currentTotal = result.length, without the candidate.
PickFromANoLookahead(discoveryList, comfortList, st, discoveryRatio) ==
    IF st.idxA < Len(discoveryList) /\ st.idxB < Len(comfortList)
    THEN Cardinality({k \in 1..Len(st.mixed) : Has(discoveryList, st.mixed[k])}) * 100
            < discoveryRatio * Len(st.mixed)
    ELSE st.idxA < Len(discoveryList)

\* pickFromA: with both lists unconsumed, whether the share of list A in the
\* result and the candidate is below discoveryRatio (in percent: the
\* comparison currentCountA / currentTotal < discoveryRatio, cross-multiplied).
\* includes compares object identity, which is equality of the records here.
PickFromA(discoveryList, comfortList, st, discoveryRatio) ==
    IF st.idxA < Len(discoveryList) /\ st.idxB < Len(comfortList)
    THEN Cardinality({k \in 1..Len(st.mixed) : Has(discoveryList, st.mixed[k])}) * 100
            < discoveryRatio * (Len(st.mixed) + 1)
    ELSE st.idxA < Len(discoveryList)

\* The loop bounded by the length of list A alone.
RECURSIVE MixFromShort(_, _, _, _, _)
MixFromShort(discoveryList, comfortList, i, st, discoveryRatio) ==
    IF i >= Len(discoveryList) THEN st.mixed
    ELSE MixFromShort(discoveryList, comfortList, i + 1,
                      MixStep(discoveryList, comfortList, st,
                              PickFromA(discoveryList, comfortList, st, discoveryRatio)),
                      discoveryRatio)

\* mixFeeds from iteration i on.
RECURSIVE MixFrom(_, _, _, _, _)
MixFrom(discoveryList, comfortList, i, st, discoveryRatio) ==
    IF i >= Len(discoveryList) + Len(comfortList) THEN st.mixed
    ELSE MixFrom(discoveryList, comfortList, i + 1,
                 MixStep(discoveryList, comfortList, st,
                         PickFromA(discoveryList, comfortList, st, discoveryRatio)),
                 discoveryRatio)

\* The sequences of at most n elements of the sequence arr.
SeqsUpTo(arr, n) ==
    UNION {{[i \in 1..k |-> arr[p[i]]] : p \in [1..k -> 1..Len(arr)]} : k \in 0..n}

MixStart == [idxA |-> 0, idxB |-> 0, mixed |-> <<>>]

mixFeeds(discoveryList, comfortList, discoveryRatio) ==
    MixFrom(discoveryList, comfortList, 0, MixStart, discoveryRatio)

\* The states of idxA, idxB and result at the head of every iteration of the
\* loop of mixFeeds, and after the last one.
RECURSIVE MixStates(_, _, _, _, _)
MixStates(discoveryList, comfortList, i, st, discoveryRatio) ==
    IF i >= Len(discoveryList) + Len(comfortList) THEN <<st>>
    ELSE <<st>> \o MixStates(discoveryList, comfortList, i + 1,
                             MixStep(discoveryList, comfortList, st,
                                     PickFromA(discoveryList, comfortList, st,
                                               discoveryRatio)),
                             discoveryRatio)

(***************************************************************************)
(* Inputs of parseDurationToSeconds: concatenations of at most MaxTokens   *)
(* tokens.                                                                 *)
(***************************************************************************)

MaxTokens == 4

DurationTokens ==
    {S("PT"), S("1H"), S("2M"), S("30S"), S("P"), S("T"), S("x"), S("5")}

RECURSIVE Concat(_)
Concat(ss) == IF ss = <<>> THEN <<>> ELSE Head(ss) \o Concat(Tail(ss))

DurationInputs ==
    {Concat(ts) : ts \in UNION {[1..n -> DurationTokens] : n \in 0..MaxTokens}}

\* The variables of an operation that is not being exercised.
ParseIdle == pdInput = <<>> /\ pdOut = <<0, 0>> /\ pdPc = "idle"
ScoreIdle == scVideo = <<>> /\ scSource = <<>> /\ scOut = <<>> /\ scPc = "idle"
PipeIdle ==
    /\ entry = "none" /\ sources = <<>> /\ pool = <<>> /\ pc = "idle" /\ requests = <<>>
    /\ completed = <<>>
    /\ rawCandidates = <<>> /\ uniqueCandidates = <<>> /\ result = <<>>
    /\ outcome = "pending"
MixIdle == mxA = <<>> /\ mxB = <<>> /\ mxRatio = 0 /\ mxOut = <<>> /\ mxPc = "idle"
FilterIdle == hfCombined = <<>> /\ hfSource = <<>> /\ hfFiltered = <<>> /\ hfPc = "idle"
PrefIdle == prefState = <<>> /\ prefQueue = <<>>

ParseInit ==
    /\ pdInput \in DurationInputs
    /\ pdOut = <<0, 0>>
    /\ pdPc = "call"
    /\ ScoreIdle
    /\ PipeIdle
    /\ MixIdle
    /\ FilterIdle
    /\ PrefIdle

\* One call of each variant on the same argument.
ParseCall ==
    /\ pdPc = "call"
    /\ pdOut' = <<parseDurationToSeconds(pdInput), parseDurationToSecondsHF(pdInput)>>
    /\ pdPc' = "returned"
    /\ UNCHANGED <<pdInput, scoreVars, pipeVars, mixVars, filterVars, prefVars>>

SpecParse == ParseInit /\ [][ParseCall]_vars

(***************************************************************************)
(* Inputs of calculateScore                                                *)
(***************************************************************************)

MaxNg == 2
MaxGenres == 2

\* A source without history, subscriptions or preferences.
BaseSource ==
    [searchHistory |-> <<>>, watchHistory |-> <<>>, subscribedChannels |-> <<>>,
     preferredGenres |-> <<>>, preferredChannels |-> <<>>, preferredDurations |-> <<>>,
     preferredFreshness |-> "balanced", discoveryMode |-> "balanced",
     ngKeywords |-> <<>>, ngChannels |-> <<>>,
     prefDepth |-> "", prefVocal |-> "", prefLive |-> "", prefCommunity |-> "",
     prefInfoEnt |-> "", prefVisual |-> "", page |-> 1]

BaseVideo ==
    [id |-> "v1", title |-> <<>>, descriptionSnippet |-> <<>>, channelName |-> <<>>,
     channelId |-> "UC0", channelAvatarUrl |-> "", isoDuration |-> <<>>,
     uploadedAt |-> <<>>]

ScoreTexts ==
    { [BaseVideo EXCEPT !.title = S("Easy Cooking LIVE"), !.channelName = S("ChefTV"),
                        !.channelId = "UC1", !.uploadedAt = S("3 hours ago")],
      [BaseVideo EXCEPT !.title = S("Violence in Cooking"), !.channelName = S("ChefTV"),
                        !.channelId = "UC1", !.uploadedAt = S("2 days ago")],
      [BaseVideo EXCEPT !.title = S("Quiet recipe"),
                        !.descriptionSnippet = S("a history of VIOLENCE"),
                        !.channelName = S("Blue Note"), !.channelId = "UC2",
                        !.uploadedAt = S("5") \o <<"U5206", "U524D">>],
      [BaseVideo EXCEPT !.title = S("Night session"),
                        !.channelName = S("Jazz Club"), !.channelId = "UC3",
                        !.uploadedAt = S("3 hours ago")],
      [BaseVideo EXCEPT !.title = S("Quiet recipe"), !.channelName = S("Blue Note"),
                        !.channelId = "UC2", !.uploadedAt = S("2024-01-01")] }

\* 0 s (empty, zero, not a PT duration), 239 s, 240 s, 1200 s, 1201 s, 3600 s.
ScoreDurations ==
    {<<>>, S("PT0S"), S("P1D"), S("PT3M59S"), S("PT4M"), S("PT20M"), S("PT20M1S"),
     S("PT1H")}

ScoreVideos ==
    {[t EXCEPT !.isoDuration = d] : t \in ScoreTexts, d \in ScoreDurations}

NgWords == <<S("JAZZ"), S("violence"), S("cook")>>
GenreWords == <<S("cooking"), S("Jazz"), S("recipe")>>

Prefixes(words, n) ==
    {SubSeq(words, 1, k) : k \in 0..(IF n < Len(words) THEN n ELSE Len(words))}

DurationPreferences ==
    {<<>>, <<"short">>, <<"medium">>, <<"long">>, <<"short", "medium">>,
     <<"short", "long">>, <<"medium", "long">>, <<"short", "medium", "long">>}

ScoreSubscriptions ==
    <<[id |-> "UC2", name |-> S("Blue"), avatarUrl |-> "a2"],
      [id |-> "UC9", name |-> S("CHEFTV"), avatarUrl |-> "a9"]>>

\* Settings of the rules 3, 4, 6 and 7: preferred channels, subscriptions,
\* context preferences (depth, vocal, live) and freshness.
OtherPreferences ==
    {[c |-> <<>>, sub |-> <<>>, f |-> "balanced", ctx |-> <<"", "", "">>],
     [c |-> <<S("chef")>>, sub |-> <<>>, f |-> "new", ctx |-> <<"", "", "">>],
     [c |-> <<>>, sub |-> ScoreSubscriptions, f |-> "balanced",
      ctx |-> <<"deep", "any", "live">>],
     [c |-> <<S("chef")>>, sub |-> ScoreSubscriptions, f |-> "new",
      ctx |-> <<"deep", "any", "live">>]}

ScoreSources ==
    {[BaseSource EXCEPT !.ngKeywords = ng, !.preferredGenres = g,
                        !.preferredDurations = d, !.preferredChannels = o.c,
                        !.subscribedChannels = o.sub, !.preferredFreshness = o.f,
                        !.prefDepth = o.ctx[1], !.prefVocal = o.ctx[2],
                        !.prefLive = o.ctx[3]] :
        ng \in Prefixes(NgWords, MaxNg), g \in Prefixes(GenreWords, MaxGenres),
        d \in DurationPreferences, o \in OtherPreferences}

ScoreInit ==
    /\ scVideo \in ScoreVideos
    /\ scSource \in ScoreSources
    /\ scOut = <<>>
    /\ scPc = "call"
    /\ ParseIdle
    /\ PipeIdle
    /\ MixIdle
    /\ FilterIdle
    /\ PrefIdle

ScoreCall ==
    /\ scPc = "call"
    /\ scOut' = calculateScore(scVideo, scSource)
    /\ scPc' = "returned"
    /\ UNCHANGED <<scVideo, scSource, parseVars, pipeVars, mixVars, filterVars, prefVars>>

SpecScore == ScoreInit /\ [][ScoreCall]_vars

(***************************************************************************)
(* Inputs of mixFeeds: lists of at most MaxMix videos. A video is an       *)
(* object with an id; obj tells apart two objects with the same id.        *)
(***************************************************************************)

MaxMix == 3

MixVideo(id, obj) == [id |-> id, obj |-> obj]

\* List A holds videos a, b, c; list B the same object a, another object with
\* the id a, and the videos d and e.
MixVideosA == <<MixVideo("a", 1), MixVideo("b", 1), MixVideo("c", 1)>>
MixVideosB == <<MixVideo("a", 1), MixVideo("a", 2), MixVideo("d", 1), MixVideo("e", 1)>>

\* discoveryRatio 0, 0.35, 0.65 (the ratio of getXraiRecommendations) and 1.
MixRatios == {0, 35, DiscoveryRatioPercent, 100}

MixInit ==
    /\ mxA \in SeqsUpTo(MixVideosA, MaxMix)
    /\ mxB \in SeqsUpTo(MixVideosB, MaxMix)
    /\ mxRatio \in MixRatios
    /\ mxOut = <<>>
    /\ mxPc = "call"
    /\ ParseIdle
    /\ ScoreIdle
    /\ PipeIdle
    /\ FilterIdle
    /\ PrefIdle

MixCall ==
    /\ mxPc = "call"
    /\ mxOut' = mixFeeds(mxA, mxB, mxRatio)
    /\ mxPc' = "returned"
    /\ UNCHANGED <<mxA, mxB, mxRatio, parseVars, scoreVars, pipeVars, filterVars, prefVars>>

SpecMix == MixInit /\ [][MixCall]_vars

(***************************************************************************)
(* The pipelines as a state machine: an invocation issues its requests,    *)
(* the collaborator settles them in any order, and the join computes the   *)
(* returned list.                                                          *)
(***************************************************************************)

MaxReply == 2

MaxPick == 3

\* The order of completion is recorded for invocations of at most MaxObserved
\* requests.
MaxObserved == 2

\* What the collaborator can answer a request with: a failure (rejection), a
\* reply without a videos list, a list of at most MaxReply videos among the
\* first MaxPick of the pool, or the whole pool.
Replies ==
    {[t |-> "fail", videos |-> <<>>], [t |-> "malformed", videos |-> <<>>]}
    \cup {[t |-> "ok", videos |-> vs] : vs \in SeqsUpTo(Slice(pool, MaxPick), MaxReply)}
    \cup {[t |-> "ok", videos |-> pool]}

Video(id, title, channelName, channelId, isoDuration, uploadedAt) ==
    [BaseVideo EXCEPT !.id = id, !.title = title, !.channelName = channelName,
                      !.channelId = channelId, !.isoDuration = isoDuration,
                      !.uploadedAt = uploadedAt]

CookingVideo ==
    Video("a", S("Easy Cooking Recipe"), S("ChefTV"), "UC1", S("PT5M"), S("3 hours ago"))
\* The same id fetched from another source, with another channel name.
CookingMirror ==
    Video("a", S("Easy Cooking Recipe"), S("Chef Mirror"), "UC5", S("PT30M"), S("2 days ago"))
ViolentVideo ==
    Video("b", S("Violence in Cooking"), S("ChefTV"), "UC1", S("PT30M"), S("2 days ago"))
ViolentChannelVideo ==
    Video("d", S("Jazz night"), S("VIOLENCE tv"), "UC6", S("PT2M"), S("2024-01-01"))
UnknownDurationVideo ==
    Video("c", S("Jazz night"), S("Blue Note"), "UC7", <<>>, S("2024-01-01"))
\* 50 seconds, and a text every rule of the scorer matches.
BusyShortVideo ==
    Video("m", S("fun anime live talk meme solo"), S("ChefTV"), "UC1", S("PT50S"),
          S("3 hours ago"))

BlueNote == [id |-> "UC7", name |-> S("Blue Note"), avatarUrl |-> "a7"]

\* A pool of BulkSize videos of distinct ids: every tenth with an NG word, the
\* others with or without the genre word and the preferred channel.
BulkSize == 60

BulkVideo(i) ==
    Video(ToString(i),
          IF i % 10 = 0 THEN S("Violence") ELSE IF i % 2 = 0 THEN S("Cooking") ELSE S("talk"),
          IF i % 3 = 0 THEN S("ChefTV") ELSE S("Other"),
          IF i % 3 = 0 THEN "UC1" ELSE "UC9", S("PT5M"), S("2024-01-01"))

BulkPool == [i \in 1..BulkSize |-> BulkVideo(i)]

\* The invocations checked: entry point, argument and the collaborator's videos.
Scenarios ==
    { [entry |-> "strict",
       sources |-> [BaseSource EXCEPT !.preferredGenres = <<S("cooking"), S("Jazz")>>,
                                      !.ngKeywords = <<S("violence")>>,
                                      !.preferredDurations = <<"medium">>],
       pool |-> <<CookingVideo, CookingMirror, ViolentVideo>>],
      [entry |-> "strict",
       sources |-> [BaseSource EXCEPT !.subscribedChannels = <<BlueNote>>,
                                      !.ngKeywords = <<S("violence")>>],
       pool |-> <<UnknownDurationVideo, ViolentChannelVideo>>],
      [entry |-> "strict",
       sources |-> [BaseSource EXCEPT
                       !.preferredGenres = <<S("anime"), S("talk"), S("live"), S("fun")>>,
                       !.preferredChannels = <<S("chef")>>,
                       !.preferredDurations = <<"medium">>,
                       !.preferredFreshness = "new",
                       !.prefDepth = "casual", !.prefVocal = "vocal", !.prefLive = "live",
                       !.prefCommunity = "solo", !.prefInfoEnt = "entertainment",
                       !.prefVisual = "avatar"],
       pool |-> <<BusyShortVideo>>],
      [entry |-> "strict",
       sources |-> [BaseSource EXCEPT !.watchHistory = <<UnknownDurationVideo>>],
       pool |-> <<CookingVideo>>],
      [entry |-> "strict",
       sources |-> [BaseSource EXCEPT !.preferredGenres = <<S("cooking")>>,
                                      !.preferredChannels = <<S("chef")>>,
                                      !.ngKeywords = <<S("violence")>>],
       pool |-> BulkPool],
      [entry |-> "hard",
       sources |-> [BaseSource EXCEPT !.preferredGenres = <<S("cooking")>>,
                                      !.subscribedChannels = <<BlueNote>>,
                                      !.ngKeywords = <<S("violence")>>,
                                      !.preferredDurations = <<"medium", "short">>],
       pool |-> <<CookingVideo, CookingMirror, ViolentChannelVideo>>],
      [entry |-> "hard",
       sources |-> [BaseSource EXCEPT !.watchHistory = <<UnknownDurationVideo>>,
                                      !.searchHistory = <<S("piano")>>,
                                      !.preferredFreshness = "popular"],
       pool |-> <<CookingVideo>>],
      [entry |-> "xrai",
       sources |-> [BaseSource EXCEPT !.preferredGenres = <<S("cooking")>>,
                                      !.subscribedChannels = <<BlueNote>>,
                                      !.ngKeywords = <<S("violence")>>],
       pool |-> <<CookingVideo, CookingMirror, UnknownDurationVideo>>],
      [entry |-> "xrai",
       sources |-> [BaseSource EXCEPT !.watchHistory = <<UnknownDurationVideo>>],
       pool |-> <<CookingVideo, ViolentVideo>>],
      [entry |-> "xrai", sources |-> BaseSource, pool |-> <<CookingVideo>>],
      [entry |-> "xrai", sources |-> [BaseSource EXCEPT !.page = 2],
       pool |-> <<CookingVideo>>],
      [entry |-> "legacy", sources |-> BaseSource,
       pool |-> <<CookingVideo, CookingMirror, ViolentVideo>>] }

Init ==
    /\ \E sc \in Scenarios :
          /\ entry = sc.entry
          /\ sources = sc.sources
          /\ pool = sc.pool
    /\ pc = "start"
    /\ requests = <<>>
    /\ completed = <<>>
    /\ rawCandidates = <<>>
    /\ uniqueCandidates = <<>>
    /\ result = <<>>
    /\ outcome = "pending"
    /\ ParseIdle
    /\ ScoreIdle
    /\ MixIdle
    /\ FilterIdle
    /\ PrefIdle

\* The synchronous part of an invocation up to its await: planning, and the
\* issue of every request.
Issue(reqs) ==
    /\ requests' = reqs
    /\ pc' = "fetching"
    /\ UNCHANGED <<entry, sources, pool, completed, rawCandidates, uniqueCandidates, result,
                   outcome, parseVars, scoreVars, mixVars, filterVars, prefVars>>

StartStrict ==
    /\ pc = "start"
    /\ entry = "strict"
    /\ \E rnd \in StrictRandoms(sources) : Issue(StrictRequests(sources, rnd))

\* The collaborator settles one outstanding request.
Reply ==
    /\ pc = "fetching"
    /\ \E i \in 1..Len(requests) :
          /\ requests[i].status = "pending"
          /\ \E r \in Replies :
                requests' = [requests EXCEPT ![i].status = "settled", ![i].reply = r]
          /\ completed' = IF Len(requests) <= MaxObserved THEN Append(completed, i)
                          ELSE completed
    /\ UNCHANGED <<entry, sources, pool, pc, rawCandidates, uniqueCandidates, result,
                   outcome, parseVars, scoreVars, mixVars, filterVars, prefVars>>

\* A join that lets the first settled request through.
AnySettled == \E i \in 1..Len(requests) : requests[i].status = "settled"

\* A join that would wait for every request to succeed.
AllFulfilled ==
    \A i \in 1..Len(requests) :
        requests[i].status = "settled" /\ requests[i].reply.t # "fail"

AllSettled == \A i \in 1..Len(requests) : requests[i].status = "settled"

\* The invocation returns (its promise is fulfilled with list).
Return(raw, unique, list) ==
    /\ rawCandidates' = raw
    /\ uniqueCandidates' = unique
    /\ result' = list
    /\ outcome' = "fulfilled"
    /\ pc' = "done"
    /\ UNCHANGED <<entry, sources, pool, requests, completed, parseVars, scoreVars, mixVars, filterVars, prefVars>>

\* The invocation throws (its promise is rejected).
Throw ==
    /\ outcome' = "rejected"
    /\ pc' = "done"
    /\ UNCHANGED <<entry, sources, pool, requests, completed, rawCandidates,
                   uniqueCandidates, result, parseVars, scoreVars, mixVars, filterVars, prefVars>>

\* The promises consumed in the order in which their requests settled, where
\* that order was recorded.
StrictRawByCompletion(reqs) ==
    IF Len(completed) = Len(reqs)
    THEN CollectArrays([k \in 1..Len(reqs) |-> StrictPromise(reqs[completed[k]])])
    ELSE CollectArrays([i \in 1..Len(reqs) |-> StrictPromise(reqs[i])])

\* rawCandidates of the scoring variant for the given settled requests.
StrictRaw(reqs) == CollectArrays([i \in 1..Len(reqs) |-> StrictPromise(reqs[i])])

\* const { videos } = await getRecommendedVideos(), inside the try: the list
\* shuffleArray copies; [...videos] throws on a reply without videos.
LegacyRaw(reqs) == IF reqs[1].reply.t = "ok" THEN reqs[1].reply.videos ELSE <<>>

\* The lists an entry point aggregates from its settled requests.
Aggregate(reqs) ==
    IF entry = "strict" THEN <<StrictRaw(reqs)>>
    ELSE IF entry = "hard" THEN <<HardRaw(reqs, sources)>>
    ELSE IF entry = "xrai" THEN <<XraiRaw(reqs, "discovery"), XraiRaw(reqs, "comfort")>>
    ELSE <<LegacyRaw(reqs)>>

StartHard ==
    /\ pc = "start"
    /\ entry = "hard"
    /\ \E rnd \in HardRandoms(sources) : Issue(HardRequests(sources, rnd))

StartXrai ==
    /\ pc = "start"
    /\ entry = "xrai"
    /\ \E rnd \in XraiRandoms(sources) : Issue(XraiRequests(sources, rnd))

StartLegacy ==
    /\ pc = "start"
    /\ entry = "legacy"
    /\ Issue(<<FeedRequest(TRUE)>>)

\* await Promise.allSettled(fetchPromises) and everything after it.
JoinStrict ==
    /\ pc = "fetching"
    /\ entry = "strict"
    /\ AllSettled
    /\ LET raw == Aggregate(requests)
           unique == Deduplicate(raw[1], {})
       IN  Return(raw, <<unique>>, StrictRanking(unique, sources))

\* await Promise.allSettled([...searchPromises, ...subPromises]) and everything
\* after it; Math.random decides the short videos kept and the final order.
JoinHard ==
    /\ pc = "fetching"
    /\ entry = "hard"
    /\ AllSettled
    /\ LET raw == Aggregate(requests)
           loop == HardLoop(raw[1], {}, sources)
       IN  \E list \in HardResults(loop.kept, sources) : Return(raw, <<loop.seen>>, list)

\* await Promise.all([...]) fulfilled, and everything after it.
JoinXrai ==
    /\ pc = "fetching"
    /\ entry = "xrai"
    /\ AllSettled
    /\ ~XraiRejected(requests)
    /\ ~XraiTypeError(requests)
    /\ LET raw == Aggregate(requests)
           uniqueDiscovery == MapDedup(raw[1])
           filteredComfort == FilterComfort(MapDedup(raw[2]), uniqueDiscovery)
       IN  \E rankedDiscovery \in rankVideos(uniqueDiscovery, sources) :
           \E rankedComfort \in rankVideos(filteredComfort, sources) :
              Return(raw, <<uniqueDiscovery, filteredComfort>>,
                     Slice(mixFeeds(rankedDiscovery, rankedComfort, DiscoveryRatioPercent),
                           XraiCap))

\* await Promise.all([...]) rejected, or v.id thrown on an undefined entry of
\* the flattened lists: nothing catches either.
ThrowXrai ==
    /\ pc = "fetching"
    /\ entry = "xrai"
    /\ XraiRejected(requests) \/ (AllSettled /\ XraiTypeError(requests))
    /\ Throw

\* The try block after the await, and the catch block.
JoinLegacy ==
    /\ pc = "fetching"
    /\ entry = "legacy"
    /\ AllSettled
    /\ LET raw == Aggregate(requests)
       IN  \E list \in Shuffles(raw[1]) : Return(raw, raw, list)

Next ==
    \/ StartStrict
    \/ StartHard
    \/ StartXrai
    \/ StartLegacy
    \/ Reply
    \/ JoinStrict
    \/ JoinHard
    \/ JoinXrai
    \/ ThrowXrai
    \/ JoinLegacy

Spec == Init /\ [][Next]_vars

\* The engine can take a step: the synchronous part of an invocation, or the
\* continuation after its await once the awaited promise is settled
\* (Promise.all of getXraiRecommendations is as soon as one promise rejects).
EngineReady ==
    \/ pc = "start"
    \/ pc = "fetching" /\ (AllSettled \/ (entry = "xrai" /\ XraiRejected(requests)))

\* A request is outstanding.
ReplyReady == pc = "fetching" /\ \E i \in 1..Len(requests) : requests[i].status = "pending"

\* A step of the engine (it moves pc) and a step of the collaborator (it
\* settles a request).
EngineStep == pc' # pc
ReplyStep == pc' = pc /\ requests' # requests

\* The entry points where the event loop runs the engine whenever it can
\* (weak fairness of the engine's steps) and the collaborator settles every
\* request in the end (weak fairness of its replies).
SpecLive ==
    /\ Init /\ [][Next]_vars
    /\ (<>[]EngineReady => []<><<EngineStep>>_vars)
    /\ (<>[]ReplyReady => []<><<ReplyStep>>_vars)

(***************************************************************************)
(* The planners alone: the synchronous part of both variants of            *)
(* getDeeplyAnalyzedRecommendations, up to the issue of the requests, for  *)
(* preference snapshots of up to seven genres, two preferred channels,     *)
(* MaxPlanHistory watched videos and MaxPlanSubs subscriptions.            *)
(***************************************************************************)

MaxPlanHistory == 1
MaxPlanSubs == 3

PlanGenres ==
    <<S("cooking"), S("Jazz"), S("anime"), S("talk"), S("live"), S("fun"), S("piano")>>
PlanGenreCounts == {0, 1, 4, 7}
PlanChannels == <<S("chef"), S("Blue Note")>>
PlanHistory == <<CookingVideo, UnknownDurationVideo, BusyShortVideo, ViolentVideo>>
PlanSubs ==
    <<BlueNote, [id |-> "UC1", name |-> S("ChefTV"), avatarUrl |-> "a1"],
      [id |-> "UC5", name |-> S("Chef Mirror"), avatarUrl |-> "a5"],
      [id |-> "UC6", name |-> S("VIOLENCE tv"), avatarUrl |-> "a6"],
      [id |-> "UC8", name |-> S("NHK"), avatarUrl |-> "a8"]>>
DiscoveryModes == {"balanced", "discovery", "subscribed"}

\* Snapshots for the scoring variant.
PlanStrictSources ==
    {[BaseSource EXCEPT !.preferredGenres = SubSeq(PlanGenres, 1, g),
                        !.preferredChannels = c,
                        !.watchHistory = h,
                        !.subscribedChannels = subs,
                        !.discoveryMode = mode,
                        !.prefDepth = depth] :
        g \in PlanGenreCounts, c \in {<<>>, PlanChannels},
        h \in Prefixes(PlanHistory, MaxPlanHistory),
        subs \in Prefixes(PlanSubs, MaxPlanSubs),
        mode \in DiscoveryModes, depth \in {"", "deep"}}

\* Snapshots for the hard-filter variant; a watch history in discovery mode.
PlanHardSources ==
    {[BaseSource EXCEPT !.preferredGenres = g,
                        !.searchHistory = sh,
                        !.subscribedChannels = subs,
                        !.discoveryMode = mode] :
        g \in {<<>>, <<S("cooking")>>}, sh \in {<<>>, <<S("piano")>>},
        subs \in Prefixes(PlanSubs, MaxPlanSubs), mode \in DiscoveryModes}
    \cup
    {[BaseSource EXCEPT !.watchHistory = <<UnknownDurationVideo>>,
                        !.searchHistory = sh,
                        !.subscribedChannels = subs,
                        !.discoveryMode = "discovery"] :
        sh \in {<<>>, <<S("piano")>>}, subs \in Prefixes(PlanSubs, MaxPlanSubs)}

PlanInit ==
    /\ \/ entry = "strict" /\ sources \in PlanStrictSources
       \/ entry = "hard" /\ sources \in PlanHardSources
    /\ pool = <<>>
    /\ pc = "start"
    /\ requests = <<>>
    /\ completed = <<>>
    /\ rawCandidates = <<>>
    /\ uniqueCandidates = <<>>
    /\ result = <<>>
    /\ outcome = "pending"
    /\ ParseIdle
    /\ ScoreIdle
    /\ MixIdle
    /\ FilterIdle
    /\ PrefIdle

SpecPlan == PlanInit /\ [][StartStrict \/ StartHard]_vars

(***************************************************************************)
(* The filters of the hard-filter variant alone: the loop over             *)
(* combinedVideos and the exclusion of short videos, for up to BulkSize    *)
(* fetched videos of known duration and a few of unknown or short          *)
(* duration, under every preferredDurations setting.                       *)
(***************************************************************************)

\* Fetched videos of distinct ids, by thirds 2, 5 and 30 minutes long.
FillerVideo(i) ==
    Video("f" \o ToString(i), S("talk"), S("Other"), "UC9",
          IF i % 3 = 0 THEN S("PT2M") ELSE IF i % 3 = 1 THEN S("PT5M") ELSE S("PT30M"),
          S("2024-01-01"))

Fillers(n) == [i \in 1..n |-> FillerVideo(i)]

\* A duration string the parser does not recognise.
MalformedDurationVideo ==
    Video("x", S("Jazz night"), S("Blue Note"), "UC7", S("5:00"), S("2024-01-01"))

\* No duration, 50 seconds, an unparsable duration, and an NG channel name.
FilterSpecials ==
    <<UnknownDurationVideo, BusyShortVideo, MalformedDurationVideo, ViolentChannelVideo>>

MaxSpecials == 2

FilterFills == {0, BulkSize - 3, BulkSize}

DurationSettings ==
    {<<>>, <<"short">>, <<"medium">>, <<"long">>, <<"short", "medium">>,
     <<"medium", "long">>, <<"short", "long">>, <<"short", "medium", "long">>}

FilterInit ==
    /\ \E head \in SeqsUpTo(FilterSpecials, MaxSpecials) : \E n \in FilterFills :
          hfCombined = head \o Fillers(n)
    /\ \E d \in DurationSettings : \E ng \in {<<>>, <<S("violence")>>} :
          hfSource = [BaseSource EXCEPT !.preferredDurations = d, !.ngKeywords = ng]
    /\ hfFiltered = <<>>
    /\ hfPc = "call"
    /\ ParseIdle
    /\ ScoreIdle
    /\ PipeIdle
    /\ MixIdle
    /\ PrefIdle

\* The loop and the exclusion of short videos; filteredVideos is then shuffled.
FilterCall ==
    /\ hfPc = "call"
    /\ hfFiltered' \in HardShortFilter(HardLoop(hfCombined, {}, hfSource).kept, hfSource)
    /\ hfPc' = "returned"
    /\ UNCHANGED <<hfCombined, hfSource, parseVars, scoreVars, pipeVars, mixVars, prefVars>>

SpecFilter == FilterInit /\ [][FilterCall]_vars

(***************************************************************************)
(* PreferenceProvider: the three list hooks and their handlers.  A handler *)
(* reads the list of the render it was created in and queues an updater;   *)
(* the next render applies the queued updaters in order.                   *)
(***************************************************************************)

Hooks == {"preferredGenres", "preferredChannels", "ngKeywords"}

\* The values the handlers are called with.
PrefValues ==
    [preferredGenres |-> <<"rock", "jazz">>, preferredChannels |-> <<"ChefTV">>,
     ngKeywords |-> <<"violence">>]

\* The lists are followed up to MaxPrefLen entries and MaxPending queued
\* updaters.
MaxPrefLen == 3
MaxPending == 2

NoValueTwice(list) == \A i, j \in 1..Len(list) : list[i] = list[j] => i = j

\* prev => [...prev, value] and prev => prev.filter(x => x !== value)
ApplyUpdater(prev, updater) ==
    LET differs(x) == x # updater.value
    IN  IF updater.op = "append" THEN Append(prev, updater.value)
        ELSE SelectSeq(prev, differs)

\* The state of a hook after the updaters queued for it.
RECURSIVE ApplyQueue(_, _)
ApplyQueue(prev, queue) ==
    IF queue = <<>> THEN prev
    ELSE ApplyQueue(ApplyUpdater(prev, Head(queue)), Tail(queue))

Pending == Len(prefQueue.preferredGenres) + Len(prefQueue.preferredChannels)
           + Len(prefQueue.ngKeywords)

setState(hook, updater) ==
    /\ Pending < MaxPending
    /\ prefQueue' = [prefQueue EXCEPT ![hook] = Append(@, updater)]
    /\ UNCHANGED <<prefState, parseVars, scoreVars, pipeVars, mixVars, filterVars>>

\* if (!list.includes(value)) setList(prev => [...prev, value])
AddTo(hook, value) ==
    IF ~Has(prefState[hook], value)
    THEN /\ Len(ApplyQueue(prefState[hook], prefQueue[hook])) < MaxPrefLen
         /\ setState(hook, [op |-> "append", value |-> value])
    ELSE UNCHANGED vars

\* setList(prev => prev.filter(x => x !== value))
RemoveFrom(hook, value) == setState(hook, [op |-> "filter", value |-> value])

addPreferredGenre ==
    \E i \in 1..Len(PrefValues.preferredGenres) :
        AddTo("preferredGenres", PrefValues.preferredGenres[i])

removePreferredGenre ==
    \E i \in 1..Len(PrefValues.preferredGenres) :
        RemoveFrom("preferredGenres", PrefValues.preferredGenres[i])

addPreferredChannel ==
    \E i \in 1..Len(PrefValues.preferredChannels) :
        AddTo("preferredChannels", PrefValues.preferredChannels[i])

removePreferredChannel ==
    \E i \in 1..Len(PrefValues.preferredChannels) :
        RemoveFrom("preferredChannels", PrefValues.preferredChannels[i])

addNgKeyword ==
    \E i \in 1..Len(PrefValues.ngKeywords) : AddTo("ngKeywords", PrefValues.ngKeywords[i])

removeNgKeyword ==
    \E i \in 1..Len(PrefValues.ngKeywords) :
        RemoveFrom("ngKeywords", PrefValues.ngKeywords[i])

\* What the next render computes for the hooks.
Rendered == [hook \in Hooks |-> ApplyQueue(prefState[hook], prefQueue[hook])]

NoUpdaters == [hook \in Hooks |-> <<>>]

\* The provider renders again: every hook takes the result of its queue, and
\* the handlers are created anew over these values.
Render ==
    /\ prefQueue # NoUpdaters
    /\ prefState' = Rendered
    /\ prefQueue' = NoUpdaters
    /\ UNCHANGED <<parseVars, scoreVars, pipeVars, mixVars, filterVars>>

\* The lists read from localStorage at the first render: no value twice.
PrefInit ==
    /\ prefState \in [Hooks -> UNION {SeqsUpTo(PrefValues[hook], MaxPrefLen) : hook \in Hooks}]
    /\ \A hook \in Hooks :
          /\ prefState[hook] \in SeqsUpTo(PrefValues[hook], MaxPrefLen)
          /\ NoValueTwice(prefState[hook])
    /\ prefQueue = NoUpdaters
    /\ ParseIdle
    /\ ScoreIdle
    /\ PipeIdle
    /\ MixIdle
    /\ FilterIdle

PrefNext ==
    \/ addPreferredGenre
    \/ removePreferredGenre
    \/ addPreferredChannel
    \/ removePreferredChannel
    \/ addNgKeyword
    \/ removeNgKeyword
    \/ Render

SpecPrefs == PrefInit /\ [][PrefNext]_vars

(***************************************************************************)
(* C9                                                                      *)
(***************************************************************************)

\* The digit strings that occur in s, and the empty string (component absent).
DigitSubstrings(s) ==
    {<<>>} \cup {d \in {SubSeq(s, i, j) : i \in 1..Len(s), j \in 1..Len(s)} :
                    \A k \in 1..Len(d) : IsDigit(d[k])}

DurationComponent(ds, unit) == IF ds = <<>> THEN <<>> ELSE ds \o <<unit>>

\* The ways to read the whole of s as PT[nH][nM][nS].
DurationForms(s) ==
    {f \in DigitSubstrings(s) \X DigitSubstrings(s) \X DigitSubstrings(s) :
        s = S("PT") \o DurationComponent(f[1], "H") \o DurationComponent(f[2], "M")
              \o DurationComponent(f[3], "S")}

DurationFormValue(f) == parseInt(f[1]) * 3600 + parseInt(f[2]) * 60 + parseInt(f[3])

\* What C9 says parseDurationToSeconds returns for s.
ClaimedSeconds(s) ==
    IF DurationForms(s) = {} THEN 0
    ELSE DurationFormValue(CHOOSE f \in DurationForms(s) : TRUE)

\* C9: for a string of the form PT[nH][nM][nS] parseDurationToSeconds returns
\* h*3600 + m*60 + s (absent components 0), and for every other string,
\* the empty one included, it returns 0.
C9_FormValueElseZero ==
    pdPc = "returned" =>
        /\ pdOut[1] = ClaimedSeconds(pdInput)
        /\ pdOut[2] = ClaimedSeconds(pdInput)

\* The half of C9 the code satisfies: strings of the form, and strings that
\* hold no "PT" at all.
C9_FormValue ==
    (pdPc = "returned" /\ (DurationForms(pdInput) # {} \/ ~includes(pdInput, S("PT")))) =>
        /\ pdOut[1] = ClaimedSeconds(pdInput)
        /\ pdOut[2] = ClaimedSeconds(pdInput)

(***************************************************************************)
(* C4, C7, C8                                                              *)
(***************************************************************************)

\* Some NG keyword occurs, whatever the case, in the title, the description
\* or the channel name.
NgOccurs(video, source) ==
    \E i \in 1..Len(source.ngKeywords) :
        \E field \in {video.title, video.descriptionSnippet, video.channelName} :
            includes(toLowerCase(field), toLowerCase(source.ngKeywords[i]))

\* C4: a video in whose title, description or channel name an NG keyword
\* occurs (case-insensitively) gets a score of at most -10000 and exactly one
\* reason, which names an NG keyword that occurs in its text.
C4_NgScore ==
    (scPc = "returned" /\ NgOccurs(scVideo, scSource)) =>
        /\ scOut.score <= -10000
        /\ Len(scOut.reasons) = 1
        /\ scOut.reasons[1][1] = "NG Keyword"
        /\ \E i \in 1..Len(scSource.ngKeywords) :
              /\ scOut.reasons[1][2] = scSource.ngKeywords[i]
              /\ includes(toLowerCase(scVideo.title \o S(" ") \o scVideo.descriptionSnippet
                                        \o S(" ") \o scVideo.channelName),
                          toLowerCase(scSource.ngKeywords[i]))

\* An NG match on a video the other rules would have given a positive score.
C4_Witness ==
    /\ scPc = "returned"
    /\ NgOccurs(scVideo, scSource)
    /\ scOut.score = -10000
    /\ AdditiveRules(scVideo, scSource).score >= 200
    /\ scSource.preferredFreshness = "new"

NoDurationReason(reasons) ==
    \A i \in 1..Len(reasons) :
        reasons[i][1] \notin {"Duration Match (Priority)", "Duration Mismatch (Penalty)"}

\* C7: a video whose duration string is empty or stands for 0 seconds gets,
\* under every preferredDurations, the score it gets with preferredDurations
\* empty, and neither duration reason.
C7_UnknownDurationExempt ==
    (scPc = "returned" /\ ClaimedSeconds(scVideo.isoDuration) = 0) =>
        /\ scOut.score =
              calculateScore(scVideo, [scSource EXCEPT !.preferredDurations = <<>>]).score
        /\ NoDurationReason(scOut.reasons)

C7_Witness ==
    /\ scPc = "returned"
    /\ scVideo.isoDuration = S("PT0S")
    /\ scSource.preferredDurations = <<"short", "long">>
    /\ NgMatches(scVideo, scSource) = {}
    /\ scOut.score = 120

\* The bucket of a known duration: short 1..239, medium 240..1200, long 1201
\* and above.
Bucket(sec) == IF sec <= 239 THEN "short" ELSE IF sec <= 1200 THEN "medium" ELSE "long"

\* C8: without an NG match, with a known duration of sec > 0 seconds and a
\* non-empty preferredDurations, the duration rule adds +200 if the bucket of
\* sec is preferred and -500 otherwise.
C8_DurationContribution ==
    LET sec == ClaimedSeconds(scVideo.isoDuration)
    IN  (/\ scPc = "returned"
         /\ ~NgOccurs(scVideo, scSource)
         /\ sec > 0
         /\ scSource.preferredDurations # <<>>) =>
            scOut.score
              - calculateScore(scVideo, [scSource EXCEPT !.preferredDurations = <<>>]).score
              = IF Has(scSource.preferredDurations, Bucket(sec)) THEN 200 ELSE -500

\* 240 seconds with only 'short' preferred: the penalty, on top of +40 and +30.
C8_Witness ==
    /\ scPc = "returned"
    /\ scVideo.isoDuration = S("PT4M")
    /\ scSource.preferredDurations = <<"short">>
    /\ ~NgOccurs(scVideo, scSource)
    /\ scOut.score = -500 + 40 + 30

(***************************************************************************)
(* Claims about the entry points                                           *)
(***************************************************************************)

Returned == pc = "done" /\ outcome = "fulfilled"

\* The requests with the replies of kind t replaced by an empty video list.
Emptied(reqs, t) ==
    [i \in 1..Len(reqs) |->
        IF reqs[i].reply.t = t
        THEN [reqs[i] EXCEPT !.reply = [t |-> "ok", videos |-> <<>>]]
        ELSE reqs[i]]

\* Every request is settled, at least one with a reply of kind t and all the
\* others with a video list.
OnlyKind(t) ==
    /\ AllSettled
    /\ \E i \in 1..Len(requests) : requests[i].reply.t = t
    /\ \A i \in 1..Len(requests) : requests[i].reply.t \in {t, "ok"}

\* C1: no entry point ever signals failure to its caller.
C1_NeverFails == outcome # "rejected"

\* C2: when requests fail and their siblings succeed, the entry point returns,
\* and has aggregated the candidates it aggregates when the failed requests
\* return an empty list instead.
C2_FailureIsEmpty ==
    (pc = "done" /\ OnlyKind("fail")) =>
        /\ outcome = "fulfilled"
        /\ rawCandidates = Aggregate(Emptied(requests, "fail"))

\* C3: when requests complete with a reply without a videos list and the
\* others with a list, the entry point returns, and has aggregated the
\* candidates it aggregates when those replies hold an empty list instead.
C3_MalformedIsEmpty ==
    (pc = "done" /\ OnlyKind("malformed")) =>
        /\ outcome = "fulfilled"
        /\ rawCandidates = Aggregate(Emptied(requests, "malformed"))

\* An NG keyword of the preferences occurs, case-insensitively, in the title,
\* the description snippet or the channel name of the video.
NgIn(video) ==
    \E i \in 1..Len(sources.ngKeywords) :
        \E field \in {video.title, video.descriptionSnippet, video.channelName} :
            includes(toLowerCase(field), toLowerCase(sources.ngKeywords[i]))

RECURSIVE Flat(_)
Flat(lists) == IF lists = <<>> THEN <<>> ELSE Head(lists) \o Flat(Tail(lists))

\* C5: no list returned by a variant of getDeeplyAnalyzedRecommendations holds
\* a video in whose title, description snippet or channel name an NG keyword
\* occurs.
C5_NoNgReturned ==
    (Returned /\ entry \in {"strict", "hard"}) =>
        \A i \in 1..Len(result) : ~NgIn(result[i])

\* The scoring variant has fetched a video with an NG keyword, twice, next to
\* one without, and returns the latter.
C5_Witness ==
    /\ Returned
    /\ entry = "strict"
    /\ Cardinality({i \in 1..Len(Flat(rawCandidates)) : NgIn(Flat(rawCandidates)[i])}) >= 2
    /\ Len(result) = 1

\* C6: with preferredDurations non-empty, the scoring variant returns no video
\* of a known duration outside every preferred bucket.
C6_MismatchExcluded ==
    (Returned /\ entry = "strict" /\ sources.preferredDurations # <<>>) =>
        \A i \in 1..Len(result) :
            \/ ClaimedSeconds(result[i].isoDuration) = 0
            \/ Has(sources.preferredDurations, Bucket(ClaimedSeconds(result[i].isoDuration)))

Ids(videos) == [i \in 1..Len(videos) |-> videos[i].id]

\* out holds every element of in once, in the order of the first occurrences
\* in in.
FirstSeenOrder(out, in) ==
    /\ {out[i] : i \in 1..Len(out)} = {in[i] : i \in 1..Len(in)}
    /\ \A i, j \in 1..Len(out) : i < j =>
          /\ out[i] # out[j]
          /\ \E k \in 1..Len(in) :
                /\ in[k] = out[i]
                /\ \A l \in 1..k : in[l] # out[j]

\* The list a request has fetched, as its promise delivers it.
Fetched(req) ==
    IF entry = "strict" THEN StrictPromise(req).items
    ELSE IF entry = "hard" THEN HardPromise(req, sources).items
    ELSE XraiPromise(req).items

\* C10 as stated: the deduplicated ids are the distinct ids of the fetched
\* lists, in the order of their first occurrence in the lists of the requests
\* taken in issue order.
C10_IssueOrder ==
    (Returned /\ entry # "legacy") =>
        FirstSeenOrder(Ids(Flat(uniqueCandidates)),
                       Ids(Flat([i \in 1..Len(requests) |-> Fetched(requests[i])])))

\* C10, amended: the deduplicated ids are the distinct ids of the fetched
\* lists, in the order of their first occurrence in the list the entry point
\* aggregates them to (in the hard-filter variant the search results before
\* the channel feeds, which are requested first).
C10_FirstSeenOrder ==
    (Returned /\ entry # "legacy") =>
        FirstSeenOrder(Ids(Flat(uniqueCandidates)), Ids(Flat(rawCandidates)))

\* An id fetched three times, by two requests, with another id between its
\* occurrences.
C10_Witness ==
    /\ Returned
    /\ entry = "strict"
    /\ Ids(Flat(rawCandidates)) = <<"a", "b", "a", "a">>
    /\ Ids(Flat(uniqueCandidates)) = <<"a", "b">>

(***************************************************************************)
(* Claims about mixFeeds                                                   *)
(***************************************************************************)

\* No two entries of the list have the same id.
DistinctIds(videos) ==
    \A i, j \in 1..Len(videos) : videos[i].id = videos[j].id => i = j

\* The entries of list that are objects of pool, in the order of list.
From(list, poolList) ==
    LET inPool(v) == Has(poolList, v)
    IN  SelectSeq(list, inPool)

\* The loop states of the call under check.
MixTrace == MixStates(mxA, mxB, 0, MixStart, mxRatio)

\* The candidate the k-th iteration takes: from list A when idxA advanced.
Scanned(trace, k) ==
    IF trace[k + 1].idxA > trace[k].idxA
    THEN [list |-> "A", video |-> mxA[trace[k].idxA + 1]]
    ELSE [list |-> "B", video |-> mxB[trace[k].idxB + 1]]

\* The number of entries of list that are objects of list A.
CountA(list) == Cardinality({k \in 1..Len(list) : Has(mxA, list[k])})

\* C11: for lists A and B whose ids are pairwise distinct, within and across
\* the lists, and every ratio, mixFeeds returns an interleaving of A and B:
\* every element of A and of B exactly once, nothing else, the elements of A
\* in the order of A and the elements of B in the order of B.
C11_Interleaving ==
    (mxPc = "returned" /\ DistinctIds(mxA \o mxB)) =>
        /\ Len(mxOut) = Len(mxA) + Len(mxB)
        /\ From(mxOut, mxA) = mxA
        /\ From(mxOut, mxB) = mxB

\* A call with the ratio 0.65 on three and two videos of distinct ids that
\* returned a video of B before the last video of A.
C11_Witness ==
    /\ mxPc = "returned"
    /\ DistinctIds(mxA \o mxB)
    /\ mxRatio = DiscoveryRatioPercent
    /\ Len(mxA) = 3
    /\ Len(mxB) = 2
    /\ \E i, j \in 1..Len(mxOut) : i < j /\ Has(mxB, mxOut[i]) /\ mxOut[j] = mxA[3]

\* C12: for all lists A and B and every ratio, every id of either list is in
\* the output exactly once (so an id of both lists once, and an id of one list
\* still once), the emitted object is the one the scan reached first, and every
\* iteration consumes one entry of one list, so that a skipped copy is never
\* taken again and both lists are consumed at the end.
C12_CrossDedup ==
    mxPc = "returned" =>
        LET trace == MixTrace
            total == Len(mxA) + Len(mxB)
        IN  /\ Len(trace) = total + 1
            /\ \A k \in 1..total :
                  trace[k + 1].idxA + trace[k + 1].idxB = trace[k].idxA + trace[k].idxB + 1
            /\ trace[total + 1].idxA = Len(mxA)
            /\ trace[total + 1].idxB = Len(mxB)
            /\ DistinctIds(mxOut)
            /\ \A k \in 1..total :
                  \E i \in 1..Len(mxOut) :
                      /\ mxOut[i].id = Scanned(trace, k).video.id
                      /\ (\A h \in 1..(k - 1) :
                             Scanned(trace, h).video.id # Scanned(trace, k).video.id)
                         => mxOut[i] = Scanned(trace, k).video
            /\ \A i \in 1..Len(mxOut) : Has(mxA, mxOut[i]) \/ Has(mxB, mxOut[i])

\* A call that returned the object of list B for an id list A holds as
\* another object, and dropped the copy of list A.
C12_Witness ==
    /\ mxPc = "returned"
    /\ Has(mxA, MixVideo("a", 1))
    /\ Has(mxOut, MixVideo("a", 2))
    /\ ~Has(mxOut, MixVideo("a", 1))
    /\ Has(mxOut, MixVideo("b", 1))
    /\ Has(mxOut, MixVideo("d", 1))

\* C13: for lists of pairwise distinct ids and every ratio r, after every
\* emission made while both lists still had unconsumed entries, the output of
\* length n holds a entries of list A with r*n <= a < r*n + 1.
C13_PrefixShare ==
    (mxPc = "returned" /\ DistinctIds(mxA \o mxB)) =>
        LET trace == MixTrace
        IN  \A k \in 1..(Len(trace) - 1) :
               (/\ trace[k].idxA < Len(mxA)
                /\ trace[k].idxB < Len(mxB)
                /\ Len(trace[k + 1].mixed) > Len(trace[k].mixed))
               => /\ mxRatio * Len(trace[k + 1].mixed) <= 100 * CountA(trace[k + 1].mixed)
                  /\ 100 * CountA(trace[k + 1].mixed)
                        < mxRatio * Len(trace[k + 1].mixed) + 100

\* A call with the ratio 0.65 whose first four emissions, all made with both
\* lists unconsumed, took list A, list A, list B and list A.
C13_Witness ==
    /\ mxPc = "returned"
    /\ DistinctIds(mxA \o mxB)
    /\ mxRatio = DiscoveryRatioPercent
    /\ Len(mxA) = 3
    /\ Len(mxB) >= 2
    /\ Len(mxOut) >= 4
    /\ Has(mxA, mxOut[1]) /\ Has(mxA, mxOut[2]) /\ Has(mxB, mxOut[3]) /\ Has(mxA, mxOut[4])

(***************************************************************************)
(* Claims about the returned lists and the join                            *)
(***************************************************************************)

\* C14: every list an entry point returns holds no two videos with the same
\* id, whatever the collaborators reply, repeated ids included.
C14_UniqueIds == Returned => DistinctIds(result)

\* The entry points with a deduplication step return no id twice.
C14_UniqueIdsWhereDeduplicated ==
    (Returned /\ entry # "legacy") => DistinctIds(result)

\* A list of one id returned by an entry point with a deduplication step
\* whose requests were answered with that id more than once.
C14_Witness ==
    /\ Returned
    /\ entry # "legacy"
    /\ Len(result) = 1
    /\ Len(Flat(rawCandidates)) > 1
    /\ \A i \in 1..Len(Flat(rawCandidates)) : Flat(rawCandidates)[i].id = result[1].id

\* C15: all requests of an invocation are issued before any is consumed, and
\* the invocation neither aggregates nor returns nor throws while one of its
\* requests is outstanding, whether or not another one has failed.
C15_JoinsAllSettled ==
    /\ pc = "start" => requests = <<>>
    /\ pc # "done" =>
          /\ rawCandidates = <<>> /\ uniqueCandidates = <<>> /\ result = <<>>
          /\ outcome = "pending"
    /\ pc = "done" => \A i \in 1..Len(requests) : requests[i].status = "settled"

\* An invocation of several requests that returned videos after one request
\* failed and another one delivered.
C15_Witness ==
    /\ Returned
    /\ Len(requests) >= 2
    /\ \E i, j \in 1..Len(requests) :
          /\ requests[i].reply.t = "fail"
          /\ requests[j].reply.t = "ok"
          /\ requests[j].reply.videos # <<>>
    /\ result # <<>>

(***************************************************************************)
(* Claims about the planners                                               *)
(***************************************************************************)

\* The requests of one API among the issued ones, in issue order.
SearchesIssued == SelectSeq(requests, IsSearch)
FeedsIssued == SelectSeq(requests, IsChannel)

\* The fixed generic queries, in the order of their insertion; each is
\* followed by the context suffix, which starts with a space.
GenericQueries == <<S("Japan trending"), S("Gaming"), S("Music")>>
IsGenericQuery(q, k) == StartsWith(q, GenericQueries[k] \o S(" "))
IsGeneric(req) == \E k \in 1..Len(GenericQueries) : IsGenericQuery(req.arg, k)

\* The snapshot generates no query from genres, preferred channels, watch
\* history or subscriptions.
NoSignal(src) ==
    /\ src.preferredGenres = <<>>
    /\ src.preferredChannels = <<>>
    /\ \A i \in 1..Min(historyLookback, Len(src.watchHistory)) :
          extractKeywords(src.watchHistory[i].title) = <<>>
    /\ src.subscribedChannels = <<>>

\* The scoring variant has planned, in discovery mode or without any signal.
FallbackPlanned ==
    /\ entry = "strict"
    /\ pc = "fetching"
    /\ sources.discoveryMode = "discovery" \/ NoSignal(sources)

C17_RequestCaps ==
    (entry = "strict" /\ pc = "fetching") =>
        /\ Len(SearchesIssued) <= 6
        /\ \A i, j \in 1..Len(SearchesIssued) :
              SearchesIssued[i].arg = SearchesIssued[j].arg => i = j
        /\ Len(FeedsIssued) <= 2
        /\ Len(requests) <= 8
        /\ Len(requests) = Len(SearchesIssued) + Len(FeedsIssued)

\* Seven genres, two preferred channels and three subscriptions: 6 searches
\* and 2 channel feeds issued.
C17_Witness ==
    /\ entry = "strict"
    /\ pc = "fetching"
    /\ Len(sources.preferredGenres) = 7
    /\ Len(sources.preferredChannels) = 2
    /\ Len(sources.subscribedChannels) = 3
    /\ Len(SearchesIssued) = 6
    /\ Len(FeedsIssued) = 2

\* The snapshot without its subscriptions.
Unsubscribed(src) == [src EXCEPT !.subscribedChannels = <<>>]

\* C20: in discovery mode the scoring variant issues no channel-feed request
\* and plans as it does without subscriptions (no query is added for a
\* subscribed channel), and the hard-filter variant issues at most one
\* channel-feed request, whatever the number of subscriptions.
C20_DiscoverySuppressesSubscriptions ==
    (pc = "fetching" /\ sources.discoveryMode = "discovery") =>
        /\ entry = "strict" =>
              /\ FeedsIssued = <<>>
              /\ \E rnd \in StrictRandoms(Unsubscribed(sources)) :
                    requests = StrictRequests(Unsubscribed(sources), rnd)
        /\ entry = "hard" => Len(FeedsIssued) <= 1

\* The hard-filter variant in discovery mode with three subscriptions: one
\* channel-feed request issued.
C20_Witness ==
    /\ pc = "fetching"
    /\ entry = "hard"
    /\ sources.discoveryMode = "discovery"
    /\ Len(sources.subscribedChannels) = 3
    /\ sources.watchHistory # <<>>
    /\ Len(FeedsIssued) = 1

\* The scoring variant in discovery mode with three subscriptions and a watch
\* history: searches only.
C20_StrictCase ==
    /\ pc = "fetching"
    /\ entry = "strict"
    /\ sources.discoveryMode = "discovery"
    /\ Len(sources.subscribedChannels) = 3
    /\ sources.watchHistory # <<>>
    /\ SearchesIssued # <<>>

(***************************************************************************)
(* Claims about the freshness bonus                                        *)
(***************************************************************************)

\* The markers of "minutes ago", "hours ago" and "days ago" in Japanese and
\* in English.
ClaimedFreshMarkers ==
    <<  <<"U5206", "U524D">>, <<"U6642", "U9593", "U524D">>, <<"U65E5", "U524D">>,
        S("minutes ago"), S("hours ago"), S("days ago") >>

\* What the freshness preference of the call under check added to the score.
FreshnessContribution ==
    scOut.score
      - calculateScore(scVideo, [scSource EXCEPT !.preferredFreshness = "balanced"]).score

\* The number of 'Fresh' entries among the returned reasons.
FreshReasons == Cardinality({k \in 1..Len(scOut.reasons) : scOut.reasons[k] = <<"Fresh">>})

\* C18: without an NG match, the freshness rule adds +20, once, exactly when
\* preferredFreshness is 'new' and uploadedAt holds a minutes-ago, hours-ago
\* or days-ago marker, in Japanese or in English, and nothing otherwise.
C18_FreshBonusBothLanguages ==
    (scPc = "returned" /\ ~NgOccurs(scVideo, scSource)) =>
        LET fresh ==
              /\ scSource.preferredFreshness = "new"
              /\ \E k \in 1..Len(ClaimedFreshMarkers) :
                    includes(scVideo.uploadedAt, ClaimedFreshMarkers[k])
        IN  /\ FreshnessContribution = (IF fresh THEN 20 ELSE 0)
            /\ FreshReasons = (IF fresh THEN 1 ELSE 0)

\* The same with the markers the code tests: the three Japanese ones and
\* 'hours ago'.
C18_FreshBonusCodeMarkers ==
    (scPc = "returned" /\ ~NgOccurs(scVideo, scSource)) =>
        LET fresh ==
              /\ scSource.preferredFreshness = "new"
              /\ \/ includes(scVideo.uploadedAt, <<"U5206", "U524D">>)
                 \/ includes(scVideo.uploadedAt, <<"U6642", "U9593", "U524D">>)
                 \/ includes(scVideo.uploadedAt, <<"U65E5", "U524D">>)
                 \/ includes(scVideo.uploadedAt, S("hours ago"))
        IN  /\ FreshnessContribution = (IF fresh THEN 20 ELSE 0)
            /\ FreshReasons = (IF fresh THEN 1 ELSE 0)

\* A video uploaded '2 days ago' scored with the preference 'new' and without
\* an NG match: no 'Fresh' reason.
C18_DaysAgoNotFresh ==
    /\ scPc = "returned"
    /\ ~NgOccurs(scVideo, scSource)
    /\ scSource.preferredFreshness = "new"
    /\ scVideo.uploadedAt = S("2 days ago")
    /\ FreshReasons = 0

(***************************************************************************)
(* Claims about the ranking of the scoring variant                         *)
(***************************************************************************)

\* The positions of candidates whose score passes the threshold.
Passing(scores) == {k \in 1..Len(scores) : scores[k] > -100}

\* list is a cut of at most 50 of the candidates cands, of the scores
\* scores, that pass the threshold: as many as the cap allows, each with its
\* score attached, in non-increasing score order, and no passing candidate
\* left out scores more than a listed one.
IsTopCut(list, cands, scores) ==
    /\ Len(list) <= 50
    /\ Len(list) = Min(50, Cardinality(Passing(scores)))
    /\ DistinctIds(list)
    /\ \A i \in 1..Len(list) :
          /\ list[i].score > -100
          /\ \E k \in Passing(scores) :
                /\ cands[k].id = list[i].id
                /\ scores[k] = list[i].score
                /\ \A f \in DOMAIN cands[k] : list[i][f] = cands[k][f]
    /\ \A i \in 1..(Len(list) - 1) : list[i].score >= list[i + 1].score
    /\ \A k \in Passing(scores) :
          (\A i \in 1..Len(list) : list[i].id # cands[k].id)
          => \A i \in 1..Len(list) : scores[k] <= list[i].score

\* The scores calculateScore gives the candidates.
ScoresOf(cands, src) == [k \in 1..Len(cands) |-> calculateScore(cands[k], src).score]

\* C19: the list the scoring variant returns is the cut of the, at most 50,
\* highest-scoring deduplicated candidates with a score above -100, in
\* non-increasing score order.
C19_TopCut ==
    (Returned /\ entry = "strict") =>
        IsTopCut(result, uniqueCandidates[1], ScoresOf(uniqueCandidates[1], sources))

\* More than 50 candidates passed the threshold: 50 returned, of differing
\* scores.
C19_Witness ==
    /\ Returned
    /\ entry = "strict"
    /\ Cardinality(Passing(ScoresOf(uniqueCandidates[1], sources))) > 50
    /\ Len(result) = 50
    /\ result[1].score > result[50].score

(***************************************************************************)
(* Claims about the kept duplicate and the order of completion             *)
(***************************************************************************)

\* Every entry of unique is the first entry of its id in raw.
KeepsFirst(unique, raw) ==
    \A i \in 1..Len(unique) :
       \E k \in 1..Len(raw) :
          /\ raw[k] = unique[i]
          /\ \A h \in 1..(k - 1) : raw[h].id # unique[i].id

\* C21: in the deduplication step of the scoring variant and in those of the
\* two tracks of getXraiRecommendations, the entry kept for an id is its
\* first occurrence, with all the field values of that occurrence.
C21_FirstKept ==
    (Returned /\ entry \in {"strict", "xrai"}) =>
        \A t \in 1..Len(uniqueCandidates) : KeepsFirst(uniqueCandidates[t], rawCandidates[t])

\* The same for the seenIds loop of the scoring variant alone.
C21_FirstKeptStrict ==
    (Returned /\ entry = "strict") => KeepsFirst(uniqueCandidates[1], rawCandidates[1])

\* getXraiRecommendations fetched an id twice on the discovery track, under
\* two channel names, and kept the entry fetched last.
C21_LastKeptXrai ==
    /\ Returned
    /\ entry = "xrai"
    /\ rawCandidates[1] = <<CookingVideo, CookingMirror>>
    /\ uniqueCandidates[1] = <<CookingMirror>>

\* The requests in the order in which the entry point hands their promises to
\* its join: the scoring variant and getXraiRecommendations (per track) in
\* issue order, the hard-filter variant the searches before the channel feeds.
JoinOrder(t) ==
    LET onTrack(req) == entry # "xrai" \/ req.track = (IF t = 1 THEN "discovery" ELSE "comfort")
    IN  IF entry = "hard"
        THEN SelectSeq(requests, IsSearch) \o SelectSeq(requests, IsChannel)
        ELSE SelectSeq(requests, onTrack)

\* The lists fetched by the requests reqs, concatenated.
FetchedBy(reqs) == Flat([i \in 1..Len(reqs) |-> Fetched(reqs[i])])

\* C22 (as stated): whatever the order of completion, the aggregated
\* candidates are the fetched lists concatenated in the issue order of their
\* requests.
C22_IssueOrderAggregation ==
    (Returned /\ entry # "legacy") => Flat(rawCandidates) = FetchedBy(requests)

\* C22 (amended): whatever the order of completion, the aggregated candidates
\* of every track are the fetched lists concatenated in the order of the
\* promises at the join, each list as its own request delivered it.
C22_JoinOrderAggregation ==
    (Returned /\ entry # "legacy") =>
        \A t \in 1..Len(rawCandidates) : rawCandidates[t] = FetchedBy(JoinOrder(t))

\* The second of two requests settled first, each delivered another video,
\* and the candidates are in the order of the requests.
C22_Witness ==
    /\ Returned
    /\ entry = "strict"
    /\ Len(requests) = 2
    /\ completed = <<2, 1>>
    /\ requests[1].reply.videos = <<CookingVideo>>
    /\ requests[2].reply.videos = <<ViolentVideo>>
    /\ rawCandidates[1] = <<CookingVideo, ViolentVideo>>

\* The hard-filter variant with a channel feed, issued first, and a search
\* that both delivered: the search result leads the candidates.
C22_HardSearchesFirst ==
    /\ Returned
    /\ entry = "hard"
    /\ requests[1].api = "channel"
    /\ requests[1].reply.videos # <<>>
    /\ \E i \in 2..Len(requests) :
          /\ requests[i].reply.t = "ok"
          /\ requests[i].reply.videos # <<>>
          /\ rawCandidates[1][1] = requests[i].reply.videos[1]
          /\ rawCandidates[1][1].id # requests[1].reply.videos[1].id

(***************************************************************************)
(* Claims about termination                                                *)
(***************************************************************************)

UnknownDurationFetched ==
    {i \in 1..Len(hfCombined) :
        /\ \A j \in 1..(i - 1) : hfCombined[j].id # hfCombined[i].id
        /\ ~HardIsNg(hfCombined[i], hfSource)
        /\ parseDurationToSecondsHF(hfCombined[i].isoDuration) = 0}

InFiltered(video) == \E j \in 1..Len(hfFiltered) : hfFiltered[j] = video

\* C24: in the hard-filter variant a fetched video without NG match whose
\* duration parses to 0 seconds is among the filtered candidates that are
\* shuffled and returned, for every preferredDurations setting and every number
\* of candidates.
C24_UnknownDurationKept ==
    hfPc = "returned" => \A i \in UnknownDurationFetched : InFiltered(hfCombined[i])

\* The loop never removes such a video (the duration filter exempts 0
\* seconds): it is kept whenever the exclusion of short videos does not run,
\* that is with at most ShortFilterFloor candidates after the loop or with
\* "short" among preferredDurations.
C24_UnknownDurationKeptBelowFloor ==
    hfPc = "returned"
      /\ (Len(HardLoop(hfCombined, {}, hfSource).kept) <= ShortFilterFloor
           \/ Has(hfSource.preferredDurations, "short"))
    => \A i \in UnknownDurationFetched : InFiltered(hfCombined[i])

\* A run where the exclusion of short videos removed a video of unknown
\* duration although "long" alone is preferred.
C24_Dropped ==
    /\ hfPc = "returned"
    /\ hfSource.preferredDurations = <<"long">>
    /\ Len(hfCombined) > 0
    /\ hfCombined[1] = UnknownDurationVideo
    /\ ~InFiltered(UnknownDurationVideo)
    /\ Len(hfFiltered) = ShortFilterFloor

(***************************************************************************)
(* The preference lists                                                    *)
(***************************************************************************)

\* C25: every list of the preference store holds no value twice, after any
\* sequence of add and remove calls from lists without duplicates, several
\* add calls for one value before the next render included.
C25_NoValueTwice == \A hook \in Hooks : NoValueTwice(prefState[hook])

\* With at most one call per hook between two renders the lists stay free
\* of duplicates: the handler then tests the list the updater is applied to.
C25_OneCallPerRender ==
    (C25_NoValueTwice /\ \A hook \in Hooks : Len(prefQueue[hook]) <= 1)
    => \A hook \in Hooks : NoValueTwice(Rendered[hook])

\* Two add calls for "rock" before the render, from an empty list.
C25_AddedTwice ==
    /\ prefState.preferredGenres = <<>>
    /\ prefQueue.preferredGenres = <<[op |-> "append", value |-> "rock"],
                                     [op |-> "append", value |-> "rock"]>>

====
